---- MODULE Spec2Model ----
(***************************************************************************)
(* A model of the request-execution core of kscore:                        *)
(*   - kscore/endpoint.py: convert_to_response_dict, Endpoint (the retry   *)
(*     loop of make_request / _send_request, the failure classification    *)
(*     of _get_response, the retry query of _needs_retry);                 *)
(*   - kscore/stub.py: Stubber (the FIFO queue of canned responses).       *)
(*                                                                         *)
(* Python objects are records with a "type" field; None is the record      *)
(* [type |-> "None"].  Objects whose identity matters (prepared requests,  *)
(* HTTP responses, exceptions) carry the number that tells one object from *)
(* another: a prepared request its creation number (id), a response or an  *)
(* exception the attempt that produced it (att).                           *)
(***************************************************************************)
EXTENDS Integers, Sequences, FiniteSets, TLC

VARIABLES
    \* ---- one Endpoint.make_request call (endpoint.py) ----
    pc,                 \* position of the call: idle, send, inflight, hook, sleeping, done
    request_dict,       \* make_request's request_dict argument
    operation_model,    \* make_request's operation_model argument
    attempts,           \* _send_request's local attempts
    request,            \* _send_request's local request (the current prepared request)
    success_response,   \* _send_request's local success_response
    exception,          \* _send_request's local exception
    handler_response,   \* _needs_retry's local handler_response
    hook_query,         \* keyword arguments of the latest needs-retry emit
    raw_sent,           \* what http_session.send returned or raised in the latest attempt
    outcome,            \* how the call ended: returned value or raised error
    n_created,          \* number of request objects built so far (next object id - 1)
    body_pos,           \* read position of request_dict['body'] when it is a stream
    endpoint,           \* the Endpoint make_request is called on (self)
    events,             \* the call's observable steps, in order
    \* ---- convert_to_response_dict applied to one input (endpoint.py) ----
    cv_http_response,
    cv_operation_model,
    cv_response_dict,
    \* ---- one Stubber and the client it is attached to (stub.py) ----
    _queue,             \* Stubber._queue
    active,             \* whether the two handlers are registered on the client
    enqueued,           \* every entry ever appended to _queue, in order
    served,             \* the response pair of every successful stubbed call, in order
    last_call,          \* what the latest operation on the stubber did
    \* ---- client calls made from several threads on one Stubber (stub.py) ----
    threads,            \* per thread: where its client call is and what it got
    \* ---- one EndpointCreator.create_endpoint call (endpoint.py) ----
    create_call,        \* the arguments of the call
    environ,            \* os.environ when the call is made
    created,            \* what the call returned or raised
    \* ---- instances of a class with a CachedProperty (utils.py) ----
    obj_dict,           \* per instance: the value stored in obj.__dict__ under the property name
    fget_calls,         \* per instance: how often fget ran
    accessed,            \* what the latest attribute access returned
    \* ---- instances of a class with an instance_cache method (utils.py) ----
    _instance_cache,    \* per instance: self._instance_cache, cache key -> stored result
    invocations,        \* per instance and cache key: how often the wrapped method ran
    cache_call,          \* the latest call of the wrapped method and what it returned
    \* ---- prepare_request applied to one request object (endpoint.py) ----
    prepare_arg,        \* the request object handed to prepare_request
    headers_before,     \* what its headers held before the first call
    prepared,           \* what the latest prepare_request call returned
    n_prepared,          \* how many prepare_request calls were made on it
    \* ---- make_request calls made concurrently on one shared Endpoint (endpoint.py) ----
    call_of,            \* per caller: where its make_request call is and its attempts
    _lock,               \* Endpoint._lock: unlocked, or locked by a caller
    \* ---- switch_to_virtual_host_style applied to one request (utils.py) ----
    vh_request,         \* the request object: its url and auth_path
    vh_default,         \* the default_endpoint_url argument of the handler
    vh_first,           \* the request as the first application left it
    vh_last,            \* what the latest application did: returned or raised
    vh_calls,            \* how many times the handler was applied to the request
    \* ---- InstanceMetadataFetcher._get_request (utils.py) ----
    md_num_attempts,    \* the num_attempts argument of _get_request
    md_seen,            \* what each requests.get of the call did, in order
    md_result           \* how the call ended: None while it runs

endpoint_vars == <<pc, request_dict, operation_model, attempts, request,
                   success_response, exception, handler_response, hook_query,
                   raw_sent, outcome, n_created, body_pos, endpoint, events>>
convert_vars == <<cv_http_response, cv_operation_model, cv_response_dict>>
stub_vars == <<_queue, active, enqueued, served, last_call>>
thread_vars == <<threads>>
create_vars == <<create_call, environ, created>>
cached_vars == <<obj_dict, fget_calls, accessed>>
cache_vars == <<_instance_cache, invocations, cache_call>>
encode_vars == <<prepare_arg, headers_before, prepared, n_prepared>>
calls_vars == <<call_of, _lock>>
vhost_vars == <<vh_request, vh_default, vh_first, vh_last, vh_calls>>
metadata_vars == <<md_num_attempts, md_seen, md_result>>
vars == <<endpoint_vars, convert_vars, stub_vars, thread_vars, create_vars, cached_vars, cache_vars, encode_vars, calls_vars, vhost_vars, metadata_vars>>

\* What an action of one component leaves alone: the other components.
except_endpoint == <<convert_vars, stub_vars, thread_vars, create_vars, cached_vars, cache_vars, encode_vars, calls_vars, vhost_vars, metadata_vars>>
except_convert == <<endpoint_vars, stub_vars, thread_vars, create_vars, cached_vars, cache_vars, encode_vars, calls_vars, vhost_vars, metadata_vars>>
except_stub == <<endpoint_vars, convert_vars, thread_vars, create_vars, cached_vars, cache_vars, encode_vars, calls_vars, vhost_vars, metadata_vars>>
except_stub_threads == <<endpoint_vars, convert_vars, create_vars, cached_vars, cache_vars, encode_vars, calls_vars, vhost_vars, metadata_vars>>
except_create == <<endpoint_vars, convert_vars, stub_vars, thread_vars, cached_vars, cache_vars, encode_vars, calls_vars, vhost_vars, metadata_vars>>
except_cached == <<endpoint_vars, convert_vars, stub_vars, thread_vars, create_vars, cache_vars, encode_vars, calls_vars, vhost_vars, metadata_vars>>
except_cache == <<endpoint_vars, convert_vars, stub_vars, thread_vars, create_vars, cached_vars, encode_vars, calls_vars, vhost_vars, metadata_vars>>
except_encode == <<endpoint_vars, convert_vars, stub_vars, thread_vars, create_vars, cached_vars, cache_vars, calls_vars, vhost_vars, metadata_vars>>
except_calls == <<endpoint_vars, convert_vars, stub_vars, thread_vars, create_vars, cached_vars, cache_vars, encode_vars, vhost_vars, metadata_vars>>
except_vhost == <<endpoint_vars, convert_vars, stub_vars, thread_vars, create_vars, cached_vars, cache_vars, encode_vars, calls_vars, metadata_vars>>
except_metadata == <<endpoint_vars, convert_vars, stub_vars, thread_vars, create_vars, cached_vars, cache_vars, encode_vars, calls_vars, vhost_vars>>

None == [type |-> "None"]

\* ------------------------------------------------------------------ bounds
\* The retry hook of the model stops ordering retries at this attempt.
MaxAttempts == 3
\* The most handlers registered on the needs-retry event.
MaxHandlers == 2
\* The most entries a test enqueues on the stubber.
MaxEnqueued == 2
\* The length of a streamed request body.
BodyLength == 2
\* The most runs of a cached property's getter on one instance.
MaxFgetCalls == 3
\* The most runs of an instance_cache method for one instance and cache key.
MaxInvocations == 2
\* The most prepare_request calls on one request object.
MaxPrepares == 2
\* The most applications of switch_to_virtual_host_style to one request.
MaxSwitches == 2
\* The largest num_attempts given to InstanceMetadataFetcher._get_request.
MaxNumAttempts == 3

\* ------------------------------------------------------- endpoint.py values
StatusCodes == {100, 200, 204, 299, 300, 301, 404, 500}

Headers == { [has_content_length |-> FALSE, content_length |-> "", server |-> "ks"],
             [has_content_length |-> TRUE, content_length |-> "0", server |-> "ks"],
             [has_content_length |-> TRUE, content_length |-> "12", server |-> "ks"] }

\* dict.get(key): None when the key is absent
headers_get_content_length(headers) ==
    IF headers.has_content_length
    THEN [type |-> "str", value |-> headers.content_length]
    ELSE None

Contents == {"", "<Error/>"}

HttpResponse(status_code, headers, content, att) ==
    [type |-> "Response", status_code |-> status_code, headers |-> headers,
     content |-> content, raw |-> [type |-> "raw", of |-> content], att |-> att]

OperationModels ==
    { [name |-> "GetObject", protocol |-> "rest-xml", output_shape |-> "GetObjectOutput",
       has_streaming_output |-> s] : s \in BOOLEAN }

StreamingBody(raw_stream, content_length) ==
    [type |-> "StreamingBody", raw_stream |-> raw_stream, content_length |-> content_length]

MutConvertNoStatusCheck(http_response, op_model) ==
    [headers |-> http_response.headers,
     status_code |-> http_response.status_code,
     body |-> IF op_model.has_streaming_output
              THEN StreamingBody(http_response.raw,
                                 headers_get_content_length(http_response.headers))
              ELSE [type |-> "bytes", value |-> http_response.content]]

convert_to_response_dict(http_response, op_model) ==
    LET response_dict == [headers |-> http_response.headers,
                          status_code |-> http_response.status_code]
        body == IF response_dict.status_code >= 300
                THEN [type |-> "bytes", value |-> http_response.content]
                ELSE IF op_model.has_streaming_output
                THEN StreamingBody(http_response.raw,
                                   headers_get_content_length(response_dict.headers))
                ELSE [type |-> "bytes", value |-> http_response.content]
    IN  [headers |-> response_dict.headers,
         status_code |-> response_dict.status_code,
         body |-> body]

\* ------------------------------------------------------- Python values
\* A str is given by its characters, a bool by its truth value.
PyStr(chars) == [type |-> "str", value |-> chars]
PyBool(b) == [type |-> "bool", value |-> b]

\* A dict is given by its keys (each key has one possible value here).
Dict(keys) == [type |-> "dict", keys |-> keys]

\* ---------------------------------------------------------- the Endpoint
DEFAULT_TIMEOUT == 60

\* Endpoint.__init__: the fields of a new Endpoint
Endpoint(host, endpoint_prefix, proxies, verify, timeout) ==
    [type |-> "Endpoint",
     _endpoint_prefix |-> endpoint_prefix,
     host |-> host,
     verify |-> verify,
     proxies |-> IF proxies = None THEN Dict({}) ELSE proxies,
     timeout |-> timeout]

CaBundlePath == PyStr(<<"/", "c", "a", ".", "p", "e", "m">>)

\* The Endpoint objects make_request is called on: one as EndpointCreator
\* builds it by default, one with a CA bundle, a proxy and a short timeout.
DefaultEndpoint ==
    Endpoint("https://svc.example.com", "svc", None, PyBool(TRUE), DEFAULT_TIMEOUT)
Endpoints ==
    { DefaultEndpoint,
      Endpoint("https://svc.example.com", "svc", Dict({"https"}), CaBundlePath, 5) }

\* ------------------------------------------------------ the call's inputs
\* The body of a request_dict is a byte string, or a stream (a file-like
\* object with a read position) that the prepared requests share with it.
BytesBody == [type |-> "bytes", value |-> "payload"]
StreamBody == [type |-> "stream", name |-> "upload"]

\* A header value is text (a sequence of code points), a byte string (a
\* sequence of octets) or something else, such as a number.
Text(points) == [type |-> "text", points |-> points]
Bytes(octets) == [type |-> "bytes", octets |-> octets]
Number(n) == [type |-> "int", value |-> n]

\* "ks/é" as text and "1B2M2Y8A" cut to two octets as a byte string.
UserAgent == Text(<<107, 115, 47, 233>>)
ContentMD5 == Bytes(<<49, 66>>)

RequestDicts ==
    { [url |-> "https://svc.example.com/a", method |-> "GET", body |-> BytesBody,
       headers |-> [k \in {"User-Agent"} |-> UserAgent]],
      [url |-> "https://svc.example.com/b", method |-> "PUT", body |-> StreamBody,
       headers |-> [k \in {"User-Agent", "Content-MD5"} |->
                       IF k = "User-Agent" THEN UserAgent ELSE ContentMD5]] }

\* A number handed back by a needs-retry handler: a delay in seconds.
Seconds(d) == [type |-> "number", value |-> d]
Delays == {0, 1}

\* What the handlers of the needs-retry event answer: the hook of the model
\* orders no retry once the call has made MaxAttempts attempts.
HandlerAnswers(att) ==
    IF att >= MaxAttempts THEN {None} ELSE {None} \cup {Seconds(d) : d \in Delays}

RECURSIVE SeqsUpTo(_, _)
SeqsUpTo(S, n) ==
    IF n = 0 THEN {<<>>}
    ELSE LET shorter == SeqsUpTo(S, n - 1)
         IN  shorter \cup {Append(q, x) : q \in {r \in shorter : Len(r) = n - 1}, x \in S}

\* emit('needs-retry...') returns one answer per registered handler, in order.
EmitResults(att) == SeqsUpTo(HandlerAnswers(att), MaxHandlers)

\* ------------------------------------------------------- request creation
\* One code point in UTF-8.
utf8(c) ==
    IF c < 128 THEN <<c>>
    ELSE IF c < 2048 THEN <<192 + (c \div 64), 128 + (c % 64)>>
    ELSE IF c < 65536
    THEN <<224 + (c \div 4096), 128 + ((c \div 64) % 64), 128 + (c % 64)>>
    ELSE <<240 + (c \div 262144), 128 + ((c \div 4096) % 64),
           128 + ((c \div 64) % 64), 128 + (c % 64)>>

\* value.encode('utf-8') of a text value
RECURSIVE encode(_)
encode(points) ==
    IF points = <<>> THEN <<>> ELSE utf8(Head(points)) \o encode(Tail(points))

\* Every value is encoded, a byte string octet by octet as if it were text.
MutEncodeEveryValue(headers) ==
    [key \in DOMAIN headers |->
        IF headers[key].type = "text" THEN Bytes(encode(headers[key].points))
        ELSE IF headers[key].type = "bytes" THEN Bytes(encode(headers[key].octets))
        ELSE headers[key]]

\* _encode_headers(headers): what the mapping holds afterwards.
_encode_headers(headers) ==
    [key \in DOMAIN headers |->
        IF headers[key].type = "text" THEN Bytes(encode(headers[key].points))
        ELSE headers[key]]

\* create_request_object(params): a new request object (id) with the url,
\* method, body and headers of the request_dict.
create_request_object(params, id) ==
    [type |-> "KSRequest", id |-> id, url |-> params.url, method |-> params.method,
     body |-> params.body, headers |-> params.headers]

\* The handler of request-created that the client registers signs the
\* request: it sets a text Authorization header on the request it is given.
Signature == Text(<<75, 83, 8364>>)
sign(req) ==
    [req EXCEPT !.headers = [key \in DOMAIN req.headers \cup {"Authorization"} |->
                                IF key = "Authorization" THEN Signature
                                ELSE req.headers[key]]]

\* request.prepare(): the prepared request holds what the request holds now.
prepare(req) == [req EXCEPT !.type = "KSPreparedRequest"]

\* The request-created event is emitted after the request is prepared.
MutStepsEmitAfterPrepare(op_model) ==
    <<"create", "encode_headers", "prepare">>
        \o (IF op_model # None THEN <<"request-created">> ELSE <<>>)

\* The statements of create_request and prepare_request in the order they
\* run; the emit only `if operation_model`.
create_request_steps(op_model) ==
    <<"create">> \o (IF op_model # None THEN <<"request-created">> ELSE <<>>)
        \o <<"encode_headers", "prepare">>

\* One statement: what it does to the request object and whether the result
\* of create_request exists yet.
run_step(step, st, params, id) ==
    IF step = "create"
    THEN [st EXCEPT !.request = create_request_object(params, id)]
    ELSE IF st.request = None THEN st
    ELSE IF step = "request-created"
    THEN [st EXCEPT !.request = sign(st.request)]
    ELSE IF step = "encode_headers"
    THEN [st EXCEPT !.request.headers = _encode_headers(st.request.headers)]
    ELSE [st EXCEPT !.prepared = prepare(st.request)]

RECURSIVE run_steps(_, _, _, _)
run_steps(steps, st, params, id) ==
    IF steps = <<>> THEN st
    ELSE run_steps(Tail(steps), run_step(Head(steps), st, params, id), params, id)

\* create_request(params, operation_model): the prepared request.
create_request(params, op_model, id) ==
    run_steps(create_request_steps(op_model),
              [request |-> None, prepared |-> None], params, id).prepared

\* --------------------------------------------------- the HTTP exchange
Signatures == {"gaierror", "BadStatusLine"}

\* requests.exceptions.ConnectionError: str(e) is summarised by the known
\* signatures it contains; e.request is the request sent, or None.
ConnectionErrors(req, att) ==
    { [type |-> "ConnectionError", text |-> t, request |-> r, att |-> att] :
        t \in SUBSET Signatures, r \in {None, req} }

\* Any exception that is not a ConnectionError (a read timeout, say); its
\* text may contain a signature too.
OtherErrors(req, att) ==
    { [type |-> "ReadTimeout", text |-> t, request |-> req, att |-> att] :
        t \in {{}, {"gaierror"}, {"BadStatusLine"}} }

EndpointStatusCodes == {200, 500}

\* Everything http_session.send(request, ...) can do in attempt att: return
\* a response or raise.
SendOutcomes(req, att) ==
    { HttpResponse(s, CHOOSE h \in Headers : ~h.has_content_length, "<Error/>", att) :
        s \in EndpointStatusCodes }
    \cup ConnectionErrors(req, att) \cup OtherErrors(req, att)

IsException(x) == x.type \notin {"None", "Response"}

\* -------------------------------------------------------------- errors
\* KSCoreError.__init__ keeps its keyword arguments.
EndpointConnectionError(endpoint_url, error, att) ==
    [type |-> "EndpointConnectionError", endpoint_url |-> endpoint_url,
     error |-> error, att |-> att]

\* ConnectionClosedError.__init__ formats endpoint_url into the message and
\* hands the remaining keyword (request) to ConnectionError.
ConnectionClosedError(endpoint_url, req, att) ==
    [type |-> "ConnectionClosedError", msg_url |-> endpoint_url,
     request |-> req, att |-> att]

\* ---------------------------------------------------------- the parser
\* parser.parse(response_dict, output_shape): the parsed dict, or a parse
\* error on a malformed body (parser_raises is the parser's choice).
parse(response_dict, output_shape, parser_raises, att) ==
    IF parser_raises
    THEN [type |-> "ResponseParserError", att |-> att]
    ELSE [type |-> "dict", shape |-> output_shape,
          status_code |-> response_dict.status_code, body |-> response_dict.body]

\* --------------------------------------------------------- _get_response
\* The text alone decides.
MutLooksLikeDnsErrorTextOnly(e) == "gaierror" \in e.text

_looks_like_dns_error(e) == "gaierror" \in e.text /\ e.request # None

_looks_like_bad_status_line(e) == "BadStatusLine" \in e.text /\ e.request # None

\* Reading e.request.url when e.request is None raises AttributeError.
AttributeError(att) == [type |-> "AttributeError", att |-> att]

\* _get_response either returns the pair (success_response, exception) or
\* lets an exception escape (raised).
GetResponseReturn(sr, exc) ==
    [raised |-> FALSE, success_response |-> sr, exception |-> exc, error |-> None]
GetResponseRaise(err) ==
    [raised |-> TRUE, success_response |-> None, exception |-> None, error |-> err]

SuccessResponse(http_response, parsed) ==
    [type |-> "tuple", http_response |-> http_response, parsed |-> parsed]

ConvertAndParse(sent, op_model, att, parser_raises) ==
    LET response_dict == convert_to_response_dict(sent, op_model)
        parsed == parse(response_dict, op_model.output_shape, parser_raises, att)
    IN  IF parsed.type = "ResponseParserError"
        THEN GetResponseRaise(parsed)
        ELSE GetResponseReturn(SuccessResponse(sent, parsed), None)

\* The two reclassifying branches of the except clause: each reads
\* e.request.url, and an exception raised there leaves _get_response.
DnsBranch(sent, att) ==
    IF sent.request = None THEN GetResponseRaise(AttributeError(att))
    ELSE GetResponseReturn(None, EndpointConnectionError(sent.request.url, sent, att))
BadStatusBranch(sent, att) ==
    IF sent.request = None THEN GetResponseRaise(AttributeError(att))
    ELSE GetResponseReturn(None,
             ConnectionClosedError(sent.request.url, sent.request, att))

\* The DNS branch hands back the raw exception.
MutGetResponseRawDns(req, op_model, att, sent, parser_raises) ==
    IF sent.type = "ConnectionError"
    THEN IF _looks_like_dns_error(sent)
         THEN GetResponseReturn(None, sent)
         ELSE IF _looks_like_bad_status_line(sent)
         THEN BadStatusBranch(sent, att)
         ELSE GetResponseReturn(None, sent)
    ELSE IF IsException(sent)
    THEN GetResponseReturn(None, sent)
    ELSE ConvertAndParse(sent, op_model, att, parser_raises)

\* The bad-status-line check is made before the DNS check.
MutGetResponseBadStatusFirst(req, op_model, att, sent, parser_raises) ==
    IF sent.type = "ConnectionError"
    THEN IF _looks_like_bad_status_line(sent)
         THEN BadStatusBranch(sent, att)
         ELSE IF _looks_like_dns_error(sent)
         THEN DnsBranch(sent, att)
         ELSE GetResponseReturn(None, sent)
    ELSE IF IsException(sent)
    THEN GetResponseReturn(None, sent)
    ELSE ConvertAndParse(sent, op_model, att, parser_raises)

\* The broad except clause wraps what it catches.
MutGetResponseWrapOther(req, op_model, att, sent, parser_raises) ==
    IF sent.type = "ConnectionError"
    THEN IF _looks_like_dns_error(sent)
         THEN DnsBranch(sent, att)
         ELSE IF _looks_like_bad_status_line(sent)
         THEN BadStatusBranch(sent, att)
         ELSE GetResponseReturn(None, sent)
    ELSE IF IsException(sent)
    THEN GetResponseReturn(None, EndpointConnectionError(req.url, sent, att))
    ELSE ConvertAndParse(sent, op_model, att, parser_raises)

\* sent is what http_session.send(request, ...) returned or raised.
_get_response(req, op_model, att, sent, parser_raises) ==
    IF sent.type = "ConnectionError"
    THEN IF _looks_like_dns_error(sent)
         THEN DnsBranch(sent, att)
         ELSE IF _looks_like_bad_status_line(sent)
         THEN BadStatusBranch(sent, att)
         ELSE GetResponseReturn(None, sent)
    ELSE IF IsException(sent)
    THEN GetResponseReturn(None, sent)
    ELSE ConvertAndParse(sent, op_model, att, parser_raises)


\* ----------------------------------------------------- observable steps
\* the statements of create_request for request object id, as they ran
EvCreate(op_model, id) ==
    LET steps == create_request_steps(op_model)
    IN  [i \in 1..Len(steps) |-> [e |-> steps[i], req |-> id]]
EvReset(req) == [e |-> "reset_stream", req |-> req.id]
\* Every send uses the default timeout.
MutSendDefaultTimeout(self, req, op_model, att, pos) ==
    [e |-> "send", req |-> req.id, att |-> att, body_from |-> pos,
     verify |-> self.verify, stream |-> op_model.has_streaming_output,
     proxies |-> self.proxies, timeout |-> DEFAULT_TIMEOUT]

\* http_session.send(request, verify=..., stream=..., proxies=...,
\* timeout=...) as _get_response calls it; body_from: where in the body the
\* send starts to read
EvSend(self, req, op_model, att, pos) ==
    [e |-> "send", req |-> req.id, att |-> att, body_from |-> pos,
     verify |-> self.verify, stream |-> op_model.has_streaming_output,
     proxies |-> self.proxies, timeout |-> self.timeout]
\* the exchange is over: the send returned (raised FALSE) or raised
EvRecv(att, raised) == [e |-> "recv", att |-> att, raised |-> raised]
EvHook(att, hr) == [e |-> "hook", att |-> att, ans |-> hr]
EvSleep(secs) == [e |-> "sleep", secs |-> secs]
EvWake(secs) == [e |-> "wake", secs |-> secs]
EvReturn == [e |-> "return"]
EvRaise == [e |-> "raise"]

\* ---------------------------------------------------------- _needs_retry
\* kscore.hooks.first_non_none_response: the first answer that is not None,
\* None when there is none.
first_non_none_response(responses) ==
    LET hits == {i \in 1..Len(responses) : responses[i] # None}
    IN  IF hits = {} THEN None
        ELSE responses[CHOOSE i \in hits : \A j \in hits : i <= j]

\* The query counts the retries made, not the attempts.
MutNeedsRetryQueryCountsRetries(att, op_model, response, caught_exception) ==
    [response |-> response, endpoint |-> "self", operation |-> op_model,
     attempts |-> att - 1, caught_exception |-> caught_exception]

NeedsRetryQuery(att, op_model, response, caught_exception) ==
    [response |-> response, endpoint |-> "self", operation |-> op_model,
     attempts |-> att, caught_exception |-> caught_exception]

\* The answer is tested for truth, not for None.
MutNeedsRetryTruthiness(att, op_model, response, caught_exception, responses) ==
    LET hr == first_non_none_response(responses)
        truthy == hr # None /\ hr.value # 0
    IN  [query |-> NeedsRetryQuery(att, op_model, response, caught_exception),
         handler_response |-> hr,
         sleep |-> IF truthy THEN hr ELSE None,
         ret |-> truthy]

\* The sleep is left out.
MutNeedsRetryNoSleep(att, op_model, response, caught_exception, responses) ==
    LET hr == first_non_none_response(responses)
    IN  [query |-> NeedsRetryQuery(att, op_model, response, caught_exception),
         handler_response |-> hr,
         sleep |-> None,
         ret |-> hr # None]

\* The sleep is one second longer for each attempt made.
MutNeedsRetryOwnBackoff(att, op_model, response, caught_exception, responses) ==
    LET hr == first_non_none_response(responses)
    IN  [query |-> NeedsRetryQuery(att, op_model, response, caught_exception),
         handler_response |-> hr,
         sleep |-> IF hr = None THEN None ELSE Seconds(hr.value + att),
         ret |-> hr # None]

\* The loop gives up after two attempts whatever the handlers answer.
MutNeedsRetryOwnLimit(att, op_model, response, caught_exception, responses) ==
    LET hr == first_non_none_response(responses)
    IN  [query |-> NeedsRetryQuery(att, op_model, response, caught_exception),
         handler_response |-> hr,
         sleep |-> IF hr = None \/ att >= 2 THEN None ELSE hr,
         ret |-> hr # None /\ att < 2]

\* Only a delay that is truthy is slept; a delay of 0 retries at once.
MutNeedsRetryZeroNotSlept(att, op_model, response, caught_exception, responses) ==
    LET hr == first_non_none_response(responses)
    IN  [query |-> NeedsRetryQuery(att, op_model, response, caught_exception),
         handler_response |-> hr,
         sleep |-> IF hr = None \/ hr.value = 0 THEN None ELSE hr,
         ret |-> hr # None]

\* responses is what the emit of the needs-retry event returned.  sleep is
\* the argument of the time.sleep call made before returning (None: no
\* sleep), ret the value returned.
_needs_retry(att, op_model, response, caught_exception, responses) ==
    LET hr == first_non_none_response(responses)
    IN  [query |-> NeedsRetryQuery(att, op_model, response, caught_exception),
         handler_response |-> hr,
         sleep |-> IF hr = None THEN None ELSE hr,
         ret |-> hr # None]

\* --------------------------------------------------------- _send_request
\* request.reset_stream(): a stream body is rewound (seek(0)); a byte
\* string has no position to reset.  pos is the body's read position.
reset_stream(req, pos) ==
    IF req.body.type = "stream" THEN 0 ELSE pos

\* What http_session.send leaves of the body: a byte string is sent whole
\* each time; a stream is read from its position on, as far as the exchange
\* got.
PositionsAfterSend(req, pos) ==
    IF req.body.type = "stream" THEN pos..BodyLength ELSE {pos}

\* The previous attempt's prepared request is sent again.
MutRetryReusesRequest(att, old_request, params, op_model, id, pos) ==
    [attempts |-> att + 1, request |-> old_request, created |-> 0,
     body_pos |-> reset_stream(old_request, pos),
     events |-> <<EvReset(old_request)>>]

\* The stream is not reset before the request is built again.
MutRetryNoResetStream(att, old_request, params, op_model, id, pos) ==
    LET new_request == create_request(params, op_model, id)
    IN  [attempts |-> att + 1, request |-> new_request, created |-> 1,
         body_pos |-> pos,
         events |-> EvCreate(op_model, id)]

\* The body of the while loop up to the next _get_response call.
_send_request_retry(att, old_request, params, op_model, id, pos) ==
    LET new_request == create_request(params, op_model, id)
    IN  [attempts |-> att + 1, request |-> new_request, created |-> 1,
         body_pos |-> reset_stream(old_request, pos),
         events |-> <<EvReset(old_request)>> \o EvCreate(op_model, id)]

Returned(value) == [type |-> "returned", value |-> value, error |-> None]
Raised(error) == [type |-> "raised", value |-> None, error |-> error]

\* A captured exception is dropped and the (absent) response returned.
MutFinishSwallowsException(sr, exc) == Returned(sr)

\* The end of _send_request, after the loop.
_send_request_finish(sr, exc) ==
    IF exc # None THEN Raised(exc) ELSE Returned(sr)

FinishEvents(out) == IF out.type = "raised" THEN <<EvRaise>> ELSE <<EvReturn>>

\* ------------------------------------------------- Endpoint: the actions
EndpointLocals ==
    /\ pc = "idle"
    /\ request_dict = None
    /\ operation_model = None
    /\ attempts = 0
    /\ request = None
    /\ success_response = None
    /\ exception = None
    /\ handler_response = None
    /\ hook_query = None
    /\ raw_sent = None
    /\ outcome = None
    /\ n_created = 0
    /\ body_pos = 0
    /\ events = <<>>

\* An Endpoint has been constructed with the defaults and no call made on it.
EndpointInit == EndpointLocals /\ endpoint = DefaultEndpoint

\* No Endpoint is involved.
EndpointIdle == EndpointLocals /\ endpoint = None

\* make_request(operation_model, request_dict) up to the first send.
MakeRequest ==
    /\ pc = "idle"
    /\ \E op_model \in OperationModels, params \in RequestDicts :
         LET new_request == create_request(params, op_model, n_created + 1)
         IN  /\ operation_model' = op_model
             /\ request_dict' = params
             /\ attempts' = 1
             /\ request' = new_request
             /\ n_created' = n_created + 1
             /\ events' = events \o EvCreate(op_model, n_created + 1)
    /\ pc' = "send"
    /\ UNCHANGED <<success_response, exception, handler_response, hook_query,
                   raw_sent, outcome, body_pos>>
    /\ UNCHANGED <<endpoint, except_endpoint>>

\* _get_response: http_session.send(request, ...) is called.
SendStart ==
    /\ pc = "send"
    /\ pc' = "inflight"
    /\ events' = Append(events, EvSend(endpoint, request, operation_model, attempts, body_pos))
    /\ UNCHANGED <<request_dict, operation_model, attempts, request,
                   success_response, exception, handler_response, hook_query,
                   raw_sent, outcome, n_created, body_pos>>
    /\ UNCHANGED <<endpoint, except_endpoint>>

\* _get_response: the send returns or raises, and the rest of the method.
SendReturn ==
    /\ pc = "inflight"
    /\ \E sent \in SendOutcomes(request, attempts), parser_raises \in BOOLEAN,
          pos \in PositionsAfterSend(request, body_pos) :
         LET r == _get_response(request, operation_model, attempts, sent,
                                parser_raises)
         IN  /\ raw_sent' = sent
             /\ body_pos' = pos
             /\ IF r.raised
                THEN /\ pc' = "done"
                     /\ outcome' = Raised(r.error)
                     /\ events' = events \o <<EvRecv(attempts, IsException(sent)), EvRaise>>
                     /\ UNCHANGED <<success_response, exception>>
                ELSE /\ pc' = "hook"
                     /\ success_response' = r.success_response
                     /\ exception' = r.exception
                     /\ events' = Append(events, EvRecv(attempts, IsException(sent)))
                     /\ UNCHANGED outcome
    /\ UNCHANGED <<request_dict, operation_model, attempts, request,
                   handler_response, hook_query, n_created>>
    /\ UNCHANGED <<endpoint, except_endpoint>>

\* The while condition came out true: the loop body; or false: the end of
\* _send_request.
LoopStep(cond, ev) ==
    IF cond
    THEN LET b == _send_request_retry(attempts, request, request_dict,
                                      operation_model, n_created + 1, body_pos)
         IN  /\ attempts' = b.attempts
             /\ request' = b.request
             /\ n_created' = n_created + b.created
             /\ body_pos' = b.body_pos
             /\ events' = ev \o b.events
             /\ pc' = "send"
             /\ UNCHANGED outcome
    ELSE LET out == _send_request_finish(success_response, exception)
         IN  /\ outcome' = out
             /\ events' = ev \o FinishEvents(out)
             /\ pc' = "done"
             /\ UNCHANGED <<attempts, request, n_created, body_pos>>

\* _needs_retry up to its sleep, or to its end when it does not sleep.
NeedsRetry ==
    /\ pc = "hook"
    /\ \E responses \in EmitResults(attempts) :
         LET r == _needs_retry(attempts, operation_model, success_response,
                               exception, responses)
             ev == Append(events, EvHook(attempts, r.handler_response))
         IN  /\ hook_query' = r.query
             /\ handler_response' = r.handler_response
             /\ IF r.sleep # None
                THEN /\ pc' = "sleeping"
                     /\ events' = Append(ev, EvSleep(r.sleep.value))
                     /\ UNCHANGED <<attempts, request, n_created, body_pos, outcome>>
                ELSE LoopStep(r.ret, ev)
    /\ UNCHANGED <<request_dict, operation_model, success_response, exception,
                   raw_sent>>
    /\ UNCHANGED <<endpoint, except_endpoint>>

\* time.sleep returns, _needs_retry returns True, and the loop body runs.
SleepReturn ==
    /\ pc = "sleeping"
    /\ LoopStep(TRUE, Append(events, EvWake(events[Len(events)].secs)))
    /\ UNCHANGED <<request_dict, operation_model, success_response, exception,
                   handler_response, hook_query, raw_sent>>
    /\ UNCHANGED <<endpoint, except_endpoint>>

ConvertIdle ==
    /\ cv_http_response = None
    /\ cv_operation_model = None
    /\ cv_response_dict = None

StubInit ==
    /\ _queue = <<>>
    /\ active = FALSE
    /\ enqueued = <<>>
    /\ served = <<>>
    /\ last_call = None

\* The threads of a test that call the stubbed client.
Threads == {1, 2}

\* No thread has called the client.
ThreadsIdle ==
    threads = [t \in Threads |-> [pc |-> "idle"]]

\* create_endpoint has not been called.
CreateIdle ==
    /\ create_call = None
    /\ environ = None
    /\ created = None

\* Nothing of this component has run.
CachedIdle ==
    /\ obj_dict = None
    /\ fget_calls = None
    /\ accessed = None

\* Nothing of this component has run.
CacheIdle ==
    /\ _instance_cache = None
    /\ invocations = None
    /\ cache_call = None

\* Nothing of this component has run.
EncodeIdle ==
    /\ prepare_arg = None
    /\ headers_before = None
    /\ prepared = None
    /\ n_prepared = None

\* Nothing of this component has run.
CallsIdle ==
    /\ call_of = None
    /\ _lock = None

\* Nothing of this component has run.
VhostIdle ==
    /\ vh_request = None
    /\ vh_default = None
    /\ vh_first = None
    /\ vh_last = None
    /\ vh_calls = None

\* Nothing of this component has run.
MetadataIdle ==
    /\ md_num_attempts = None
    /\ md_seen = None
    /\ md_result = None

Init == EndpointInit /\ ConvertIdle /\ StubInit /\ ThreadsIdle /\ CreateIdle /\ CachedIdle /\ CacheIdle /\ EncodeIdle /\ CallsIdle /\ VhostIdle /\ MetadataIdle

Next == MakeRequest \/ SendStart \/ SendReturn \/ NeedsRetry \/ SleepReturn

Spec == Init /\ [][Next]_vars

\* ======================================================================
\* Properties of Endpoint.make_request (specification Spec)
\* ======================================================================
EventsOf(kind) == SelectSeq(events, LAMBDA x : x.e = kind)
Sends == EventsOf("send")
Recvs == EventsOf("recv")
Hooks == EventsOf("hook")
Sleeps == EventsOf("sleep")
Wakes == EventsOf("wake")
Creates == EventsOf("create")

\* Position in events of the k-th event of the kind, 0 when there is none.
Pos(kind, k) ==
    LET idx == {i \in 1..Len(events) : events[i].e = kind}
        hit == {i \in idx : Cardinality({j \in idx : j <= i}) = k}
    IN  IF hit = {} THEN 0 ELSE CHOOSE i \in hit : TRUE

Done == pc = "done"

\* The hook answered a delay to its first n queries and no-retry to query n+1.
HookDelaysThenStops(n) ==
    /\ Len(Hooks) = n + 1
    /\ \A k \in 1..n : Hooks[k].ans # None
    /\ Hooks[n + 1].ans = None

\* C1: when the needs-retry hook answers a delay to its first N queries and
\* then no-retry, the finished call has made exactly N+1 sends and N sleeps,
\* the k-th sleep lasts what the k-th answer said, and it lies after send k
\* and before send k+1.
C1_SendsAndSleeps ==
    Done =>
      \A n \in 0..Len(events) :
        HookDelaysThenStops(n) =>
          /\ Len(Sends) = n + 1
          /\ Len(Sleeps) = n
          /\ Len(Wakes) = n
          /\ \A k \in 1..n :
               /\ Sleeps[k].secs = Hooks[k].ans.value
               /\ Wakes[k].secs = Hooks[k].ans.value
               /\ Pos("send", k) < Pos("sleep", k)
               /\ Pos("sleep", k) < Pos("wake", k)
               /\ Pos("wake", k) < Pos("send", k + 1)

C1_Witness ==
    /\ Done
    /\ HookDelaysThenStops(2)
    /\ Len(Sends) = 3
    /\ Sleeps[1].secs = 1
    /\ Sleeps[2].secs = 0

\* C2: the outcome of a call is that of its last attempt: it returns the
\* (http_response, parsed) pair of the last attempt or raises one error, the
\* one that arose in the last attempt; an error of an earlier attempt that
\* was retried is not raised.
C2_OutcomeOfLastAttempt ==
    Done =>
      /\ outcome.type \in {"returned", "raised"}
      /\ Len(EventsOf("return")) + Len(EventsOf("raise")) = 1
      /\ raw_sent.att = Len(Sends)
      /\ IsException(raw_sent) =>
           /\ outcome.type = "raised"
           /\ outcome.error.att = Len(Sends)
           /\ Len(EventsOf("raise")) = 1
      /\ ~IsException(raw_sent) =>
           \/ /\ outcome.type = "returned"
              /\ outcome.value.type = "tuple"
              /\ outcome.value.http_response = raw_sent
              /\ outcome.value.parsed.body
                   = convert_to_response_dict(raw_sent, operation_model).body
              /\ Len(EventsOf("return")) = 1
           \/ /\ outcome.type = "raised"
              /\ outcome.error = [type |-> "ResponseParserError", att |-> Len(Sends)]

C2_Witness ==
    /\ Done
    /\ Len(Sends) = 2
    /\ Recvs[1].raised
    /\ outcome.type = "raised"
    /\ outcome.error.type = "ConnectionError"
    /\ outcome.error.att = 2

\* C3: a further attempt is started exactly when the needs-retry hook gave
\* an answer other than None for the attempt before it, whatever that
\* attempt's status or exception was.
C3_HookDecides ==
    /\ \A k \in 1..Len(Hooks) : Hooks[k].att = k
    /\ \A k \in 2..Len(Sends) : Len(Hooks) >= k - 1 /\ Hooks[k - 1].ans # None
    /\ \A k \in 1..Len(Hooks) :
         IF Hooks[k].ans = None
         THEN Len(Sends) = k /\ Done
         ELSE \/ Len(Sends) > k
              \/ k = Len(Hooks) /\ Len(Sends) = k /\ pc \in {"sleeping", "send"}

C3_Witness ==
    /\ Done
    /\ Len(Sends) = 2
    /\ ~Recvs[1].raised
    /\ Hooks[1].ans = Seconds(0)
    /\ raw_sent.type = "Response"
    /\ raw_sent.status_code = 500
    /\ outcome.type = "returned"

\* C4: every attempt sends a prepared request built for it by a
\* create_request call from the caller's request_dict: no request object is
\* sent twice, and there are as many create_request calls as sends.
C4_FreshRequestPerAttempt ==
    /\ \A i, j \in 1..Len(Sends) : i # j => Sends[i].req # Sends[j].req
    /\ \A k \in 1..Len(Sends) :
         /\ Len(Creates) >= k
         /\ Creates[k].req = Sends[k].req
         /\ Pos("create", k) < Pos("send", k)
         /\ k > 1 => Pos("send", k - 1) < Pos("create", k)
    /\ Len(Creates) = Len(Sends) + (IF pc = "send" THEN 1 ELSE 0)
    /\ pc \in {"send", "inflight"} =>
         request = create_request(request_dict, operation_model, Len(Creates))

C4_Witness ==
    /\ Done
    /\ Len(Sends) = 3
    /\ Len(Creates) = 3
    /\ Sends[3].req = 3

\* C5: the attempts of a call are sequential: send k+1 starts only after the
\* exchange of attempt k has returned, the hook for attempt k has answered
\* and the sleep it ordered has finished.
C5_Sequential ==
    \A k \in 1..Len(Sends) :
      k > 1 =>
        /\ 0 < Pos("send", k - 1)
        /\ Pos("send", k - 1) < Pos("recv", k - 1)
        /\ Pos("recv", k - 1) < Pos("hook", k - 1)
        /\ Pos("hook", k - 1) < Pos("sleep", k - 1)
        /\ Pos("sleep", k - 1) < Pos("wake", k - 1)
        /\ Pos("wake", k - 1) < Pos("send", k)
        /\ Sleeps[k - 1].secs = Hooks[k - 1].ans.value

C5_Witness ==
    /\ pc = "inflight"
    /\ Len(Sends) = 3
    /\ Len(Wakes) = 2

\* A ConnectionError that _looks_like_dns_error accepts / that
\* _looks_like_bad_status_line accepts, written out.
DnsShaped(x) ==
    x.type = "ConnectionError" /\ "gaierror" \in x.text /\ x.request # None
BadStatusShaped(x) ==
    x.type = "ConnectionError" /\ "BadStatusLine" \in x.text /\ x.request # None

HookSawLastAttempt == hook_query # None /\ hook_query.attempts = raw_sent.att

\* C6: a transport failure of DNS shape is surfaced as an
\* EndpointConnectionError carrying the failed URL, in every attempt, both to
\* the retry hook and to the caller when the attempt is the last.
C6_DnsIsEndpointConnectionError ==
    DnsShaped(raw_sent) =>
      LET better == EndpointConnectionError(raw_sent.request.url, raw_sent,
                                            raw_sent.att)
      IN  /\ exception = better
          /\ exception.error.request.id = Sends[raw_sent.att].req
          /\ HookSawLastAttempt =>
               /\ hook_query.caught_exception = better
               /\ hook_query.response = None
          /\ Done => outcome = Raised(better)

C6_Witness ==
    /\ Done
    /\ DnsShaped(raw_sent)
    /\ raw_sent.att = 2
    /\ outcome.type = "raised"
    /\ outcome.error.type = "EndpointConnectionError"

\* C7: a ConnectionError of bad-status-line shape and not of DNS shape is
\* replaced by a ConnectionClosedError carrying the failed request; one of
\* both shapes becomes an EndpointConnectionError (the DNS check is first).
C7_BadStatusIsConnectionClosed ==
    /\ (BadStatusShaped(raw_sent) /\ ~DnsShaped(raw_sent)) =>
         /\ exception.type = "ConnectionClosedError"
         /\ exception.request = raw_sent.request
         /\ exception.request.id = Sends[raw_sent.att].req
         /\ HookSawLastAttempt => hook_query.caught_exception = exception
         /\ Done => outcome = Raised(exception)
    /\ (BadStatusShaped(raw_sent) /\ DnsShaped(raw_sent)) =>
         exception.type = "EndpointConnectionError"

C7_Witness ==
    /\ Done
    /\ BadStatusShaped(raw_sent)
    /\ ~DnsShaped(raw_sent)
    /\ raw_sent.att = 2
    /\ outcome.type = "raised"
    /\ outcome.error.type = "ConnectionClosedError"

\* C8: any other exception of the send (a ConnectionError with neither
\* signature, or an exception of another type whatever its text) is captured
\* as it is: the hook gets that object, and the caller too when no retry is
\* ordered.
C8_OtherExceptionsUnchanged ==
    (/\ IsException(raw_sent)
     /\ \/ raw_sent.type # "ConnectionError"
        \/ raw_sent.text \cap Signatures = {}) =>
      /\ exception = raw_sent
      /\ HookSawLastAttempt =>
           /\ hook_query.caught_exception = raw_sent
           /\ hook_query.response = None
      /\ Done => outcome = Raised(raw_sent)

C8_Witness ==
    /\ Done
    /\ raw_sent.type = "ReadTimeout"
    /\ "gaierror" \in raw_sent.text
    /\ raw_sent.att = 2
    /\ outcome = Raised(raw_sent)

\* ======================================================================
\* convert_to_response_dict on its own (specification SpecConvert)
\* ======================================================================
ConvertInit ==
    /\ cv_http_response \in
         {HttpResponse(s, h, c, 1) : s \in StatusCodes, h \in Headers, c \in Contents}
    /\ cv_operation_model \in OperationModels
    /\ cv_response_dict = None

Convert ==
    /\ cv_response_dict = None
    /\ cv_response_dict' = convert_to_response_dict(cv_http_response, cv_operation_model)
    /\ UNCHANGED <<cv_http_response, cv_operation_model>>
    /\ UNCHANGED except_convert

InitConvert == EndpointIdle /\ ConvertInit /\ StubInit /\ ThreadsIdle /\ CreateIdle /\ CachedIdle /\ CacheIdle /\ EncodeIdle /\ CallsIdle /\ VhostIdle /\ MetadataIdle

NextConvert == Convert

SpecConvert == InitConvert /\ [][NextConvert]_vars

\* C9: the body is a lazy stream exactly when the status is below 300 and
\* the operation has streaming output; a status of 300 or more always gives
\* the buffered content; headers and status_code are those of the response.
C9_StreamIffSuccessAndStreaming ==
    cv_response_dict # None =>
      /\ cv_response_dict.body.type = "StreamingBody"
           <=> (cv_http_response.status_code < 300
                /\ cv_operation_model.has_streaming_output)
      /\ cv_response_dict.body.type \in {"StreamingBody", "bytes"}
      /\ cv_response_dict.body.type = "bytes" =>
           cv_response_dict.body.value = cv_http_response.content
      /\ cv_response_dict.body.type = "StreamingBody" =>
           cv_response_dict.body.raw_stream = cv_http_response.raw
      /\ cv_http_response.status_code >= 300 =>
           cv_response_dict.body = [type |-> "bytes", value |-> cv_http_response.content]
      /\ cv_response_dict.headers = cv_http_response.headers
      /\ cv_response_dict.status_code = cv_http_response.status_code

C9_Witness ==
    /\ cv_response_dict # None
    /\ cv_http_response.status_code = 300
    /\ cv_operation_model.has_streaming_output
    /\ cv_response_dict.body.type = "bytes"

\* ======================================================================
\* kscore/stub.py: Stubber (specification SpecStub)
\* ======================================================================
\* The client the stubber is attached to: the attributes it has, and
\* client.meta.method_to_api_mapping.
ClientAttributes == {"list_objects", "delete_object", "can_paginate"}
MethodNames == ClientAttributes \cup {"no_such_method"}

hasattr_client(method) == method \in ClientAttributes

\* dict.get(method): None when the method has no API mapping
method_to_api_mapping_get(method) ==
    CASE method = "list_objects" -> [type |-> "str", value |-> "ListObjects"]
      [] method = "delete_object" -> [type |-> "str", value |-> "DeleteObject"]
      [] OTHER -> None

\* The operation models of the client's service model.  ListObjects has an
\* output shape that requires Name; DeleteObject has no output shape.
StubOperationNames == {"ListObjects", "DeleteObject"}

output_shape_of(name) ==
    IF name = "ListObjects"
    THEN [type |-> "structure", required |-> {"Name"}, members |-> {"Name"}]
    ELSE None

StubOperationModel(name) == [name |-> name, output_shape |-> output_shape_of(name)]

ServiceResponses == {Dict(k) : k \in SUBSET {"Name", "ResponseMetadata"}}

CallParams == {Dict({"Bucket"}), Dict({"Bucket", "Prefix"})}
ExpectedParams == {None, Dict({"Bucket"})}

\* The http_status_code keyword of add_client_error: <<>> when the caller
\* omits it, <<n>> when given.
ErrorStatusCodes == {<<>>, <<404>>}
\* service_error_code and service_message ('' when omitted)
ServiceErrors == { [code |-> "", message |-> ""],
                   [code |-> "NoSuchBucket", message |-> "no bucket"] }

\* requests.models.Response(): a new object each time (id).
StubHttpResponse(status_code, id) ==
    [type |-> "Response", status_code |-> status_code, id |-> id]

\* kscore.validate.validate_parameters(response, output_shape): a
\* ParamValidationError when a required member is missing or a key is not a
\* member of the shape.
validate_parameters(response, shape) ==
    IF shape.required \subseteq response.keys /\ response.keys \subseteq shape.members
    THEN None
    ELSE [type |-> "ParamValidationError", report |-> "shape"]

StubResponseError(operation_name, reason) ==
    [type |-> "StubResponseError", operation_name |-> operation_name, reason |-> reason]
StubAssertionError(operation_name, reason) ==
    [type |-> "StubAssertionError", operation_name |-> operation_name, reason |-> reason]

\* An entry without operation name is taken to fit any operation.
MutCallOrderNoneFitsAny(queue, model, params) ==
    IF queue = <<>>
    THEN StubResponseError(model.name, "Unexpected API Call")
    ELSE LET name == queue[1].operation_name
         IN  IF name # None /\ name # [type |-> "str", value |-> model.name]
             THEN StubResponseError(model.name, "Operation mismatch")
             ELSE None

\* None when the check passes, the error raised otherwise.
_assert_expected_call_order(queue, model, params) ==
    IF queue = <<>>
    THEN StubResponseError(model.name, "Unexpected API Call")
    ELSE LET name == queue[1].operation_name
         IN  IF name # [type |-> "str", value |-> model.name]
             THEN StubResponseError(model.name, "Operation mismatch")
             ELSE None

\* expected_params is compared even when it is None.
MutAssertExpectedParamsNoNoneCheck(queue, model, params) ==
    LET order == _assert_expected_call_order(queue, model, params)
    IN  IF order # None THEN order
        ELSE LET expected_params == queue[1].expected_params
             IN  IF params # expected_params
                 THEN StubAssertionError(model.name, "Expected parameters")
                 ELSE None

\* Only the call order is checked.
MutAssertExpectedParamsOrderOnly(queue, model, params) ==
    _assert_expected_call_order(queue, model, params)

_assert_expected_params(queue, model, params) ==
    LET order == _assert_expected_call_order(queue, model, params)
    IN  IF order # None THEN order
        ELSE LET expected_params == queue[1].expected_params
             IN  IF expected_params # None /\ params # expected_params
                 THEN StubAssertionError(model.name, "Expected parameters")
                 ELSE None

HandlerRaise(queue, err) ==
    [raised |-> TRUE, error |-> err, queue |-> queue, response |-> None]
HandlerReturn(queue, response) ==
    [raised |-> FALSE, error |-> None, queue |-> queue, response |-> response]

\* The entry is taken from the right end of the deque.
MutGetResponseHandlerPopsRight(queue, model, params) ==
    LET order == _assert_expected_call_order(queue, model, params)
    IN  IF order # None THEN HandlerRaise(queue, order)
        ELSE HandlerReturn(SubSeq(queue, 1, Len(queue) - 1),
                           queue[Len(queue)].response)

\* queue.popleft()['response']
_get_response_handler(queue, model, params) ==
    LET order == _assert_expected_call_order(queue, model, params)
    IN  IF order # None THEN HandlerRaise(queue, order)
        ELSE HandlerReturn(Tail(queue), Head(queue).response)

\* ResponseMetadata is deleted from the caller's dict itself, not from a copy.
MutStripDeletesInPlace(service_response) ==
    LET stripped == Dict(service_response.keys \ {"ResponseMetadata"})
    IN  [response |-> stripped, service_response |-> stripped]

\* The removal of ResponseMetadata in _validate_response: response is the
\* dict that is validated, service_response the caller's dict afterwards
\* (the key is deleted from a shallow copy).
strip_response_metadata(service_response) ==
    IF "ResponseMetadata" \in service_response.keys
    THEN [response |-> Dict(service_response.keys \ {"ResponseMetadata"}),
          service_response |-> service_response]
    ELSE [response |-> service_response, service_response |-> service_response]

\* A response for an operation without output shape is not looked at.
MutValidateResponseNoOutputCheck(operation_name, service_response) ==
    IF operation_name = None
    THEN [type |-> "OperationNotFoundError"]
    ELSE LET output_shape == StubOperationModel(operation_name.value).output_shape
             response == strip_response_metadata(service_response).response
         IN  IF output_shape # None
             THEN validate_parameters(response, output_shape)
             ELSE None

\* None when the response is accepted, the error raised otherwise.
\* service_model.operation_model(None) finds no operation and raises.
_validate_response(operation_name, service_response) ==
    IF operation_name = None
    THEN [type |-> "OperationNotFoundError"]
    ELSE LET output_shape == StubOperationModel(operation_name.value).output_shape
             response == strip_response_metadata(service_response).response
         IN  IF output_shape # None
             THEN validate_parameters(response, output_shape)
             ELSE IF response.keys # {}
             THEN [type |-> "ParamValidationError",
                   report |-> "Service response should only contain ResponseMetadata."]
             ELSE None

StubEntry(operation_name, http_response, body, expected_params) ==
    [operation_name |-> operation_name,
     response |-> [type |-> "tuple", http_response |-> http_response, parsed |-> body],
     expected_params |-> expected_params]

\* The response is validated before the method name is looked up.
MutAddResponseValidatesFirst(queue, method, service_response, expected_params, id) ==
    LET http_response == StubHttpResponse(200, id)
        operation_name == method_to_api_mapping_get(method)
        invalid == _validate_response(operation_name, service_response)
    IN  IF invalid # None
        THEN [raised |-> TRUE, error |-> invalid, queue |-> queue,
              service_response |-> service_response]
        ELSE IF ~hasattr_client(method)
        THEN [raised |-> TRUE, error |-> [type |-> "ValueError"], queue |-> queue,
              service_response |-> service_response]
        ELSE [raised |-> FALSE, error |-> None,
              queue |-> Append(queue, StubEntry(operation_name, http_response,
                                                service_response, expected_params)),
              service_response |-> service_response]

\* id numbers the Response object the call creates.  service_response in
\* the result is the caller's dict when the call is over; the entry holds
\* that same object.
_add_response(queue, method, service_response, expected_params, id) ==
    IF ~hasattr_client(method)
    THEN [raised |-> TRUE, error |-> [type |-> "ValueError"], queue |-> queue,
          service_response |-> service_response]
    ELSE LET http_response == StubHttpResponse(200, id)
             operation_name == method_to_api_mapping_get(method)
             invalid == _validate_response(operation_name, service_response)
             after == IF operation_name = None THEN service_response
                      ELSE strip_response_metadata(service_response).service_response
         IN  IF invalid # None
             THEN [raised |-> TRUE, error |-> invalid, queue |-> queue,
                   service_response |-> after]
             ELSE [raised |-> FALSE, error |-> None,
                   queue |-> Append(queue, StubEntry(operation_name, http_response,
                                                     after, expected_params)),
                   service_response |-> after]

\* ResponseMetadata always says 400, whatever status is given.
MutAddClientErrorMetadataDefault(queue, method, service_error_code, service_message, http_status_code, id) ==
    LET status == IF http_status_code = <<>> THEN 400 ELSE http_status_code[1]
        http_response == StubHttpResponse(status, id)
        parsed_response ==
            [type |-> "dict", keys |-> {"ResponseMetadata", "Error"},
             ResponseMetadata |-> [HTTPStatusCode |-> 400],
             Error |-> [Message |-> service_message, Code |-> service_error_code]]
        operation_name == method_to_api_mapping_get(method)
    IN  Append(queue, StubEntry(operation_name, http_response, parsed_response, None))

\* http_status_code=400 is the keyword's default.
add_client_error(queue, method, service_error_code, service_message, http_status_code, id) ==
    LET status == IF http_status_code = <<>> THEN 400 ELSE http_status_code[1]
        http_response == StubHttpResponse(status, id)
        parsed_response ==
            [type |-> "dict", keys |-> {"ResponseMetadata", "Error"},
             ResponseMetadata |-> [HTTPStatusCode |-> status],
             Error |-> [Message |-> service_message, Code |-> service_error_code]]
        operation_name == method_to_api_mapping_get(method)
    IN  Append(queue, StubEntry(operation_name, http_response, parsed_response, None))

\* One pending response is let through.
MutAssertNoPendingOffByOne(queue) ==
    LET remaining == Len(queue)
    IN  IF remaining > 1
        THEN [type |-> "AssertionError", remaining |-> remaining]
        ELSE None

\* None when the assertion passes, the error raised otherwise.
assert_no_pending_responses(queue) ==
    LET remaining == Len(queue)
    IN  IF remaining # 0
        THEN [type |-> "AssertionError", remaining |-> remaining]
        ELSE None

\* ------------------------------------------------- Stubber: the actions
\* op: the method called; args: its arguments; what: "ok", "stubbed" or
\* "raised"; error: the exception raised; response: the value handed back
\* (for add_response: the caller's service_response when the call is over).
CallResult(op, args, what, error, response) ==
    [op |-> op, args |-> args, what |-> what, error |-> error, response |-> response]

Activate ==
    /\ active' = TRUE
    /\ last_call' = CallResult("activate", None, "ok", None, None)
    /\ UNCHANGED <<_queue, enqueued, served>>
    /\ UNCHANGED except_stub

\* Deactivating drops the entries that are still queued.
MutDeactivateClearsQueue ==
    /\ active' = FALSE
    /\ _queue' = <<>>
    /\ last_call' = CallResult("deactivate", None, "ok", None, None)
    /\ UNCHANGED <<enqueued, served>>
    /\ UNCHANGED except_stub

Deactivate ==
    /\ active' = FALSE
    /\ last_call' = CallResult("deactivate", None, "ok", None, None)
    /\ UNCHANGED <<_queue, enqueued, served>>
    /\ UNCHANGED except_stub

\* What a call appended to the queue, if anything.
Appended(old, new) ==
    IF Len(new) > Len(old) THEN <<new[Len(new)]>> ELSE <<>>

AddResponse ==
    /\ Len(enqueued) < MaxEnqueued
    /\ \E method \in MethodNames, service_response \in ServiceResponses,
          expected_params \in ExpectedParams :
         LET r == _add_response(_queue, method, service_response, expected_params,
                                Len(enqueued) + 1)
         IN  /\ _queue' = r.queue
             /\ enqueued' = enqueued \o Appended(_queue, r.queue)
             /\ last_call' = CallResult("add_response",
                                        [method |-> method,
                                         service_response |-> service_response,
                                         expected_params |-> expected_params],
                                        IF r.raised THEN "raised" ELSE "ok",
                                        r.error, r.service_response)
    /\ UNCHANGED <<active, served>>
    /\ UNCHANGED except_stub

AddClientError ==
    /\ Len(enqueued) < MaxEnqueued
    /\ \E method \in MethodNames, http_status_code \in ErrorStatusCodes,
          err \in ServiceErrors :
         LET q == add_client_error(_queue, method, err.code, err.message,
                                   http_status_code, Len(enqueued) + 1)
         IN  /\ _queue' = q
             /\ enqueued' = enqueued \o Appended(_queue, q)
             /\ last_call' = CallResult("add_client_error",
                                        [method |-> method,
                                         service_error_code |-> err.code,
                                         service_message |-> err.message,
                                         http_status_code |-> http_status_code],
                                        "ok", None, None)
    /\ UNCHANGED <<active, served>>
    /\ UNCHANGED except_stub

AssertNoPendingResponses ==
    /\ LET err == assert_no_pending_responses(_queue)
       IN  last_call' = CallResult("assert_no_pending_responses", None,
                                   IF err = None THEN "ok" ELSE "raised", err, None)
    /\ UNCHANGED <<_queue, active, enqueued, served>>
    /\ UNCHANGED except_stub

\* A call of a client method while the stubber is active: the client emits
\* before-parameter-build (_assert_expected_params runs), validates and
\* serializes the parameters (which can fail), then emits before-call
\* (_get_response_handler runs) and uses the pair that handler returns.
ClientCall ==
    /\ active
    /\ \E name \in StubOperationNames, params \in CallParams,
          serialize_raises \in BOOLEAN :
         LET model == StubOperationModel(name)
             args == [params |-> params]
             checked == _assert_expected_params(_queue, model, params)
             got == _get_response_handler(_queue, model, params)
         IN  IF checked # None
             THEN /\ last_call' = CallResult(name, args, "raised", checked, None)
                  /\ UNCHANGED <<_queue, served>>
             ELSE IF serialize_raises
             THEN /\ last_call' = CallResult(name, args, "raised",
                                     [type |-> "ParamValidationError",
                                      report |-> "input"], None)
                  /\ UNCHANGED <<_queue, served>>
             ELSE IF got.raised
             THEN /\ last_call' = CallResult(name, args, "raised", got.error, None)
                  /\ _queue' = got.queue
                  /\ UNCHANGED served
             ELSE /\ last_call' = CallResult(name, args, "stubbed", None, got.response)
                  /\ _queue' = got.queue
                  /\ served' = Append(served, got.response)
    /\ UNCHANGED <<active, enqueued>>
    /\ UNCHANGED except_stub

InitStub == EndpointIdle /\ ConvertIdle /\ StubInit /\ ThreadsIdle /\ CreateIdle /\ CachedIdle /\ CacheIdle /\ EncodeIdle /\ CallsIdle /\ VhostIdle /\ MetadataIdle

NextStub ==
    \/ Activate
    \/ Deactivate
    \/ AddResponse
    \/ AddClientError
    \/ AssertNoPendingResponses
    \/ ClientCall

SpecStub == InitStub /\ [][NextStub]_vars

\* C10: the queue is first in, first out and every entry is used once: the
\* k-th successful stubbed call got the response pair of the k-th entry
\* enqueued, and the queue holds the entries enqueued and not yet served.
C10_FifoConsumedOnce ==
    /\ Len(served) <= Len(enqueued)
    /\ \A k \in 1..Len(served) : served[k] = enqueued[k].response
    /\ \A i, j \in 1..Len(served) :
         i # j => served[i].http_response.id # served[j].http_response.id
    /\ Len(_queue) = Len(enqueued) - Len(served)
    /\ _queue = SubSeq(enqueued, Len(served) + 1, Len(enqueued))
    /\ (last_call # None /\ last_call.what = "stubbed") =>
         last_call.response = enqueued[Len(served)].response

C10_Witness ==
    /\ Len(enqueued) = 2
    /\ Len(served) = 2
    /\ _queue = <<>>
    /\ served[1].parsed # served[2].parsed
    /\ last_call.what = "stubbed"

\* A step that is a call of a client method / of add_response (last_call'
\* describes the call, the unprimed variables the state it was made in).
IsClientCallStep ==
    /\ last_call' # None
    /\ last_call'.op \in StubOperationNames
IsAddResponseStep ==
    /\ last_call' # None
    /\ last_call'.op = "add_response"

HeadIsFor(queue, name) ==
    queue # <<>> /\ queue[1].operation_name = [type |-> "str", value |-> name]

\* C11: a stubbed call fails with the unexpected-call StubResponseError on
\* an empty queue, with the operation-mismatch StubResponseError when the
\* head entry is for another operation, and with a StubAssertionError
\* exactly when the head entry's expected_params is not None and differs
\* from the parameters; a head entry with expected_params None accepts any
\* parameters.
C11_StubCallErrors ==
    [][IsClientCallStep =>
         LET name == last_call'.op
             params == last_call'.args.params
             err == last_call'.error
         IN  /\ _queue = <<>> =>
                  err = StubResponseError(name, "Unexpected API Call")
             /\ (_queue # <<>> /\ ~HeadIsFor(_queue, name)) =>
                  err = StubResponseError(name, "Operation mismatch")
             /\ err.type = "StubAssertionError"
                  <=> /\ HeadIsFor(_queue, name)
                      /\ _queue[1].expected_params # None
                      /\ _queue[1].expected_params # params
             /\ err.type = "StubResponseError" <=> ~HeadIsFor(_queue, name)
             /\ (HeadIsFor(_queue, name) /\ _queue[1].expected_params = None) =>
                  err.type \notin {"StubAssertionError", "StubResponseError"}
      ]_vars

C11_Witness ==
    /\ last_call # None
    /\ last_call.op = "ListObjects"
    /\ last_call.what = "raised"
    /\ last_call.error.type = "StubAssertionError"
    /\ HeadIsFor(_queue, "ListObjects")
    /\ _queue[1].expected_params # None
    /\ _queue[1].expected_params # last_call.args.params

\* C12: the head entry is popped only after the call-order check and the
\* expected-parameter check have both passed; a call that fails with
\* unexpected-call, operation-mismatch or parameter-mismatch leaves the
\* queue as it was.
C12_PopOnlyAfterChecks ==
    [][IsClientCallStep =>
         LET name == last_call'.op
             params == last_call'.args.params
         IN  /\ (/\ last_call'.what = "raised"
                 /\ last_call'.error.type \in {"StubResponseError",
                                               "StubAssertionError"}) =>
                  /\ _queue' = _queue
                  /\ served' = served
             /\ _queue' # _queue =>
                  /\ HeadIsFor(_queue, name)
                  /\ _queue[1].expected_params \in {None, params}
                  /\ _queue' = Tail(_queue)
                  /\ last_call'.what = "stubbed"
                  /\ last_call'.response = _queue[1].response
      ]_vars

\* A call has failed on its parameters and both entries are still queued.
C12_Witness ==
    /\ last_call # None
    /\ last_call.what = "raised"
    /\ last_call.error.type = "StubAssertionError"
    /\ Len(_queue) = 2
    /\ Len(served) = 0

\* C14: assert_no_pending_responses fails with an AssertionError exactly
\* when the queue is not empty, and names the number of entries not yet
\* consumed.
C14_AssertNoPending ==
    (last_call # None /\ last_call.op = "assert_no_pending_responses") =>
      /\ last_call.what = "raised" <=> _queue # <<>>
      /\ last_call.what = "ok" <=> Len(served) = Len(enqueued)
      /\ last_call.what = "raised" =>
           /\ last_call.error.type = "AssertionError"
           /\ last_call.error.remaining = Len(enqueued) - Len(served)
           /\ last_call.error.remaining = Len(_queue)

C14_Witness ==
    /\ last_call # None
    /\ last_call.op = "assert_no_pending_responses"
    /\ last_call.what = "ok"
    /\ Len(enqueued) = 2
    /\ Len(served) = 2

StrippedKeys(service_response) == service_response.keys \ {"ResponseMetadata"}

\* C15: add_response validates before it enqueues: it raises a
\* ParamValidationError when the response without ResponseMetadata lacks a
\* field the output shape requires, or is not empty for an operation without
\* output shape; an empty response for such an operation is accepted; a
\* failure leaves the queue unchanged and a success appends one entry.
C15_AddResponseValidates ==
    [][IsAddResponseStep =>
         LET a == last_call'.args
             operation_name == method_to_api_mapping_get(a.method)
             stripped == StrippedKeys(a.service_response)
             err == last_call'.error
         IN  /\ operation_name # None =>
                  LET shape == output_shape_of(operation_name.value)
                  IN  /\ (shape # None /\ ~(shape.required \subseteq stripped)) =>
                           err.type = "ParamValidationError"
                      /\ (shape = None /\ stripped # {}) =>
                           err.type = "ParamValidationError"
                      /\ (shape = None /\ stripped = {}) =>
                           last_call'.what = "ok"
             /\ last_call'.what = "raised" =>
                  /\ err # None
                  /\ _queue' = _queue
                  /\ enqueued' = enqueued
             /\ last_call'.what = "ok" =>
                  /\ err = None
                  /\ Len(_queue') = Len(_queue) + 1
                  /\ SubSeq(_queue', 1, Len(_queue)) = _queue
                  /\ _queue'[Len(_queue')].operation_name = operation_name
                  /\ _queue'[Len(_queue')].expected_params = a.expected_params
                  /\ _queue'[Len(_queue')].response.http_response.status_code = 200
      ]_vars

C15_Witness ==
    /\ last_call # None
    /\ last_call.op = "add_response"
    /\ last_call.args.method = "delete_object"
    /\ last_call.args.service_response = Dict({"Name", "ResponseMetadata"})
    /\ last_call.what = "raised"
    /\ last_call.error.type = "ParamValidationError"
    /\ Len(_queue) = 1

\* C16: ResponseMetadata is stripped for validation only: add_response
\* leaves the caller's service_response as it was and enqueues it whole, and
\* the stubbed call returns the enqueued value, ResponseMetadata included.
C16_ResponseReturnedWhole ==
    [][/\ IsAddResponseStep =>
            /\ last_call'.response = last_call'.args.service_response
            /\ last_call'.what = "ok" =>
                 _queue'[Len(_queue')].response.parsed
                   = last_call'.args.service_response
       /\ (IsClientCallStep /\ last_call'.what = "stubbed") =>
            /\ last_call'.response = _queue[1].response
            /\ last_call'.response = enqueued[Len(served')].response
            /\ enqueued' = enqueued
      ]_vars

C16_Witness ==
    /\ last_call # None
    /\ last_call.what = "stubbed"
    /\ last_call.response.http_response.status_code = 200
    /\ last_call.response.parsed = Dict({"Name", "ResponseMetadata"})

\* ======================================================================
\* kscore/stub.py: client calls from several threads (SpecStubThreads)
\* ======================================================================
\* The Stubber holds no lock (__init__ creates only the deque), so threads
\* that call the client interleave between the handlers of one call and,
\* inside _get_response_handler, between the order check and popleft.
\* A thread's call: before_parameter_build -> before_call -> popleft -> done.
ThreadAt(pc_, name, params, got, error) ==
    [pc |-> pc_, name |-> name, params |-> params, got |-> got, error |-> error]

\* The test's thread enqueues responses and activates the stubber before
\* it starts the calling threads.
SetUp ==
    /\ ThreadsIdle
    /\ AddResponse \/ AddClientError \/ Activate

\* Thread t calls a client method.
ThreadCall(t) ==
    /\ active
    /\ threads[t].pc = "idle"
    /\ \E name \in StubOperationNames, params \in CallParams :
         threads' = [threads EXCEPT
                       ![t] = ThreadAt("before_parameter_build", name, params, None, None)]
    /\ UNCHANGED <<stub_vars, except_stub_threads>>

\* The client emits before-parameter-build in thread t:
\* _assert_expected_params runs, then the parameters are serialized.
ThreadBeforeParameterBuild(t) ==
    /\ threads[t].pc = "before_parameter_build"
    /\ \E serialize_raises \in BOOLEAN :
         LET th == threads[t]
             model == StubOperationModel(th.name)
             checked == _assert_expected_params(_queue, model, th.params)
         IN  threads' = [threads EXCEPT ![t] =
                 IF checked # None
                 THEN ThreadAt("done", th.name, th.params, None, checked)
                 ELSE IF serialize_raises
                 THEN ThreadAt("done", th.name, th.params, None,
                               [type |-> "ParamValidationError", report |-> "input"])
                 ELSE ThreadAt("before_call", th.name, th.params, None, None)]
    /\ UNCHANGED <<stub_vars, except_stub_threads>>

\* The client emits before-call in thread t: _get_response_handler runs
\* _assert_expected_call_order.
ThreadBeforeCall(t) ==
    /\ threads[t].pc = "before_call"
    /\ LET th == threads[t]
           order == _assert_expected_call_order(_queue, StubOperationModel(th.name),
                                                th.params)
       IN  threads' = [threads EXCEPT ![t] =
               IF order # None
               THEN ThreadAt("done", th.name, th.params, None, order)
               ELSE ThreadAt("popleft", th.name, th.params, None, None)]
    /\ UNCHANGED <<stub_vars, except_stub_threads>>

\* self._queue.popleft()['response'] in thread t; popleft of an empty deque
\* raises IndexError.  got keeps the whole entry that was popped.
ThreadPopLeft(t) ==
    /\ threads[t].pc = "popleft"
    /\ LET th == threads[t]
       IN  IF _queue = <<>>
           THEN /\ threads' = [threads EXCEPT ![t] =
                       ThreadAt("done", th.name, th.params, None,
                                [type |-> "IndexError"])]
                /\ UNCHANGED <<_queue, served>>
           ELSE /\ threads' = [threads EXCEPT ![t] =
                       ThreadAt("done", th.name, th.params, Head(_queue), None)]
                /\ _queue' = Tail(_queue)
                /\ served' = Append(served, Head(_queue).response)
    /\ UNCHANGED <<active, enqueued, last_call>>
    /\ UNCHANGED except_stub_threads

InitStubThreads == EndpointIdle /\ ConvertIdle /\ StubInit /\ ThreadsIdle /\ CreateIdle /\ CachedIdle /\ CacheIdle /\ EncodeIdle /\ CallsIdle /\ VhostIdle /\ MetadataIdle

NextStubThreads ==
    \/ SetUp
    \/ \E t \in Threads : ThreadCall(t)
    \/ \E t \in Threads : ThreadBeforeParameterBuild(t)
    \/ \E t \in Threads : ThreadBeforeCall(t)
    \/ \E t \in Threads : ThreadPopLeft(t)

SpecStubThreads == InitStubThreads /\ [][NextStubThreads]_vars

\* C13: with two threads calling stubbed operations at the same time, no
\* call is handed an entry for another operation or with expected_params it
\* did not pass, and no call pops from a queue that another call emptied
\* between its order check and its pop (no IndexError).
C13_CheckAndPopAtomic ==
    \A t \in Threads :
        threads[t].pc = "done" =>
            /\ threads[t].error # None => threads[t].error.type # "IndexError"
            /\ threads[t].got # None =>
                 /\ threads[t].got.operation_name
                      = [type |-> "str", value |-> threads[t].name]
                 /\ threads[t].got.expected_params \in {None, threads[t].params}

\* ======================================================================
\* kscore/endpoint.py: EndpointCreator.create_endpoint (SpecCreate)
\* kscore/utils.py: is_valid_endpoint_url
\* ======================================================================
\* A Python string is the sequence of its characters here, so that
\* urlsplit and the hostname pattern work on the text itself.
LowerAlphabet == <<"a", "b", "c", "d", "e", "f", "g", "h", "i", "j", "k", "l", "m",
                   "n", "o", "p", "q", "r", "s", "t", "u", "v", "w", "x", "y", "z">>
UpperAlphabet == <<"A", "B", "C", "D", "E", "F", "G", "H", "I", "J", "K", "L", "M",
                   "N", "O", "P", "Q", "R", "S", "T", "U", "V", "W", "X", "Y", "Z">>
Letters == {LowerAlphabet[i] : i \in 1..Len(LowerAlphabet)}
             \cup {UpperAlphabet[i] : i \in 1..Len(UpperAlphabet)}
Digits == {"0", "1", "2", "3", "4", "5", "6", "7", "8", "9"}

\* str.lower()
lower_char(c) ==
    IF \E i \in 1..Len(UpperAlphabet) : UpperAlphabet[i] = c
    THEN LowerAlphabet[CHOOSE i \in 1..Len(UpperAlphabet) : UpperAlphabet[i] = c]
    ELSE c
lower(s) == [i \in 1..Len(s) |-> lower_char(s[i])]

\* position of the first character of s that is in cs; 0 when there is none
find(s, cs) ==
    IF \E i \in 1..Len(s) : s[i] \in cs
    THEN CHOOSE i \in 1..Len(s) : s[i] \in cs /\ \A j \in 1..(i - 1) : s[j] \notin cs
    ELSE 0

\* position of the last character of s that is in cs; 0 when there is none
rfind(s, cs) ==
    IF \E i \in 1..Len(s) : s[i] \in cs
    THEN CHOOSE i \in 1..Len(s) : s[i] \in cs /\ \A j \in (i + 1)..Len(s) : s[j] \notin cs
    ELSE 0

\* s.split(c)
RECURSIVE split(_, _)
split(s, c) ==
    LET i == find(s, {c})
    IN  IF i = 0 THEN <<s>>
        ELSE <<SubSeq(s, 1, i - 1)>> \o split(SubSeq(s, i + 1, Len(s)), c)

\* SplitResult.hostname: the netloc after the last "@" and before the first
\* ":", lowercased; None when that text is empty.
hostname_of(netloc) ==
    LET hostinfo == SubSeq(netloc, rfind(netloc, {"@"}) + 1, Len(netloc))
        colon == find(hostinfo, {":"})
        host == IF colon = 0 THEN hostinfo ELSE SubSeq(hostinfo, 1, colon - 1)
    IN  IF host = <<>> THEN None ELSE PyStr(lower(host))

\* urlsplit(url): the scheme is the text before the first ":" when it starts
\* with a letter and holds scheme characters only; the netloc is the text
\* after a leading "//" up to the next "/", "?" or "#".
scheme_chars == Letters \cup Digits \cup {"+", "-", "."}

urlsplit(url) ==
    LET i == find(url, {":"})
        has_scheme == /\ i > 1
                      /\ url[1] \in Letters
                      /\ \A k \in 1..(i - 1) : url[k] \in scheme_chars
        scheme == IF has_scheme THEN lower(SubSeq(url, 1, i - 1)) ELSE <<>>
        rest == IF has_scheme THEN SubSeq(url, i + 1, Len(url)) ELSE url
        has_netloc == Len(rest) >= 2 /\ rest[1] = "/" /\ rest[2] = "/"
        after == IF has_netloc THEN SubSeq(rest, 3, Len(rest)) ELSE <<>>
        j == find(after, {"/", "?", "#"})
        netloc == IF j = 0 THEN after ELSE SubSeq(after, 1, j - 1)
        tail == IF ~has_netloc THEN rest
                ELSE IF j = 0 THEN <<>> ELSE SubSeq(after, j, Len(after))
        h == find(tail, {"#"})
        before_fragment == IF h = 0 THEN tail ELSE SubSeq(tail, 1, h - 1)
        q == find(before_fragment, {"?"})
    IN  [scheme |-> scheme, netloc |-> netloc, hostname |-> hostname_of(netloc),
         path |-> IF q = 0 THEN before_fragment ELSE SubSeq(before_fragment, 1, q - 1),
         query |-> IF q = 0 THEN <<>>
                   ELSE SubSeq(before_fragment, q + 1, Len(before_fragment)),
         fragment |-> IF h = 0 THEN <<>> ELSE SubSeq(tail, h + 1, Len(tail))]

\* len(hostname) > 255
MaxHostnameLength == 255
\* {1,63} in the label pattern
MaxLabelLength == 63

\* One label of the pattern: (?!-)[A-Z\d-]{1,63}(?<!-), case ignored.
label_allowed(label) ==
    /\ Len(label) \in 1..MaxLabelLength
    /\ \A k \in 1..Len(label) : label[k] \in Letters \cup Digits \cup {"-"}
    /\ label[1] # "-"
    /\ label[Len(label)] # "-"

\* allowed.match(hostname): labels separated by ".", each one allowed
allowed_match(hostname) ==
    LET labels == split(hostname, ".")
    IN  \A k \in 1..Len(labels) : label_allowed(labels[k])

\* The truth value of what is_valid_endpoint_url returns.  The scheme that
\* urlsplit found is not looked at.
is_valid_endpoint_url(endpoint_url) ==
    LET parts == urlsplit(endpoint_url)
        hostname == parts.hostname
    IN  IF hostname = None THEN FALSE
        ELSE IF Len(hostname.value) > MaxHostnameLength THEN FALSE
        ELSE LET h == hostname.value
                 stripped == IF h[Len(h)] = "." THEN SubSeq(h, 1, Len(h) - 1) ELSE h
             IN  allowed_match(stripped)

\* os.environ.get(key, default)
environ_get(env, key, default) ==
    IF key \in DOMAIN env THEN env[key] ELSE default

\* requests.utils.get_environ_proxies(url): the proxies the environment sets
get_environ_proxies(url, env) ==
    IF "HTTPS_PROXY" \in DOMAIN env THEN Dict({"https"}) ELSE Dict({})

\* The caller's value is taken only when it is truthy.
MutGetVerifyValueTruthiness(verify, env) ==
    IF verify # None /\ verify # PyBool(FALSE) /\ verify # PyStr(<<>>)
    THEN verify
    ELSE environ_get(env, "REQUESTS_CA_BUNDLE", PyBool(TRUE))

_get_verify_value(verify, env) ==
    IF verify # None
    THEN verify
    ELSE environ_get(env, "REQUESTS_CA_BUNDLE", PyBool(TRUE))

\* The timeout keyword: <<>> when the caller omits it, <<n>> when given.
timeout_or_default(timeout) ==
    IF timeout = <<>> THEN DEFAULT_TIMEOUT ELSE timeout[1]

CreateRaise(error) == [raised |-> TRUE, error |-> error, endpoint |-> None]
CreateReturn(new_endpoint) == [raised |-> FALSE, error |-> None, endpoint |-> new_endpoint]

\* The timeout is not handed on to the Endpoint.
MutCreateEndpointDropsTimeout(service_model, endpoint_url, verify, timeout, env) ==
    IF ~is_valid_endpoint_url(endpoint_url)
    THEN CreateRaise([type |-> "ValueError"])
    ELSE CreateReturn(Endpoint(endpoint_url, service_model.endpoint_prefix,
                               get_environ_proxies(endpoint_url, env),
                               _get_verify_value(verify, env),
                               DEFAULT_TIMEOUT))

create_endpoint(service_model, endpoint_url, verify, timeout, env) ==
    IF ~is_valid_endpoint_url(endpoint_url)
    THEN CreateRaise([type |-> "ValueError"])
    ELSE CreateReturn(Endpoint(endpoint_url, service_model.endpoint_prefix,
                               get_environ_proxies(endpoint_url, env),
                               _get_verify_value(verify, env),
                               timeout_or_default(timeout)))

\* ---- the inputs of create_endpoint
Https == <<"h", "t", "t", "p", "s">>
SchemeSep == <<":", "/", "/">>
SvcExampleCom == <<"s", "v", "c", ".", "e", "x", "a", "m", "p", "l", "e", ".", "c", "o", "m">>
LabelOf(n) == [i \in 1..n |-> "a"]
Dot == <<".">>
\* four labels of 63 characters: 255 characters
Hostname255 ==
    LabelOf(MaxLabelLength) \o Dot \o LabelOf(MaxLabelLength) \o Dot
      \o LabelOf(MaxLabelLength) \o Dot \o LabelOf(MaxLabelLength)

EndpointUrls ==
    { Https \o SchemeSep \o SvcExampleCom,                       \* https://svc.example.com
      <<"n", "o", "t", " ", "a", " ", "u", "r", "l">>,           \* not a url
      <<"/", "/">> \o SvcExampleCom,                             \* //svc.example.com
      SvcExampleCom,                                             \* svc.example.com
      Https \o SchemeSep,                                        \* https://
      <<"h", "t", " ", "t", "p">> \o SchemeSep \o SvcExampleCom, \* ht tp://svc.example.com
      <<"H", "T", "T", "P", "S">> \o SchemeSep
        \o <<"S", "V", "C", ".", "E", "X", ".", "C", "O", "M">>,   \* HTTPS://SVC.EX.COM
      Https \o SchemeSep \o SvcExampleCom
        \o <<".", "/", "p", "?", "q">>,                          \* https://svc.example.com./p?q
      Https \o SchemeSep \o <<"u", "@">> \o SvcExampleCom
        \o <<":", "8", "0", "/", "x">>,                          \* https://u@svc.example.com:80/x
      Https \o SchemeSep \o <<"-", "b", "a", "d", ".", "c", "o", "m">>,  \* https://-bad.com
      Https \o SchemeSep \o <<"s", "_", "x", ".", "c", "o", "m">>,       \* https://s_x.com
      Https \o SchemeSep \o <<"a", ".", ".", "b">>,              \* https://a..b
      Https \o SchemeSep \o Hostname255,
      Https \o SchemeSep \o Hostname255 \o Dot \o LabelOf(1),    \* 257 characters
      Https \o SchemeSep \o LabelOf(MaxLabelLength + 1) \o <<".", "c", "o", "m">> }

EnvBundlePath == PyStr(<<"/", "e", "n", "v", ".", "p", "e", "m">>)
VerifyValues == {None, PyBool(TRUE), PyBool(FALSE), CaBundlePath}
TimeoutValues == {<<>>, <<5>>}
ServiceModels == {[endpoint_prefix |-> "kec"], [endpoint_prefix |-> "ks3"]}
Environs ==
    { [type |-> "environ"],
      [type |-> "environ", REQUESTS_CA_BUNDLE |-> EnvBundlePath],
      [type |-> "environ", REQUESTS_CA_BUNDLE |-> PyStr(<<>>)],
      [type |-> "environ", HTTPS_PROXY |-> PyStr(<<"p">>)],
      [type |-> "environ", REQUESTS_CA_BUNDLE |-> EnvBundlePath,
                           HTTPS_PROXY |-> PyStr(<<"p">>)] }

\* A caller is about to call create_endpoint.
CreateInit ==
    /\ create_call \in [service_model : ServiceModels, endpoint_url : EndpointUrls,
                        verify : VerifyValues, timeout : TimeoutValues]
    /\ environ \in Environs
    /\ created = None

\* EndpointCreator.create_endpoint(service_model, region_name, endpoint_url,
\* verify, response_parser_factory, timeout)
CreateEndpoint ==
    /\ created = None
    /\ created' = create_endpoint(create_call.service_model, create_call.endpoint_url,
                                  create_call.verify, create_call.timeout, environ)
    /\ UNCHANGED <<create_call, environ>>
    /\ UNCHANGED except_create

InitCreate == EndpointIdle /\ ConvertIdle /\ StubInit /\ ThreadsIdle /\ CreateInit /\ CachedIdle /\ CacheIdle /\ EncodeIdle /\ CallsIdle /\ VhostIdle /\ MetadataIdle

NextCreate == CreateEndpoint

SpecCreate == InitCreate /\ [][NextCreate]_vars

\* The URL has no well-formed scheme: urlsplit finds none.
LacksScheme(endpoint_url) == urlsplit(endpoint_url).scheme = <<>>
LacksHostname(endpoint_url) == urlsplit(endpoint_url).hostname = None
HostnameTooLong(endpoint_url) ==
    /\ ~LacksHostname(endpoint_url)
    /\ Len(urlsplit(endpoint_url).hostname.value) > MaxHostnameLength

\* C17: create_endpoint fails with a ValueError and builds no Endpoint for
\* every endpoint URL that lacks a hostname, has a hostname longer than 255
\* characters, or lacks a well-formed scheme.
C17_InvalidUrlRejected ==
    ( /\ created # None
      /\ \/ LacksHostname(create_call.endpoint_url)
         \/ HostnameTooLong(create_call.endpoint_url)
         \/ LacksScheme(create_call.endpoint_url) ) =>
        /\ created.raised
        /\ created.error.type = "ValueError"
        /\ created.endpoint = None

\* C18: for every endpoint URL that passes validation create_endpoint
\* returns an Endpoint whose host is the given URL unchanged, whose timeout
\* is the given timeout (60 when omitted) and whose endpoint prefix is the
\* service model's.
C18_EndpointFromValidUrl ==
    (created # None /\ is_valid_endpoint_url(create_call.endpoint_url)) =>
        /\ ~created.raised
        /\ created.endpoint.type = "Endpoint"
        /\ created.endpoint.host = create_call.endpoint_url
        /\ created.endpoint.timeout
             = (IF create_call.timeout = <<>> THEN 60 ELSE create_call.timeout[1])
        /\ created.endpoint._endpoint_prefix = create_call.service_model.endpoint_prefix

C18_Witness ==
    /\ created # None
    /\ ~created.raised
    /\ create_call.endpoint_url = Https \o SchemeSep \o SvcExampleCom
    /\ created.endpoint.host = Https \o SchemeSep \o SvcExampleCom
    /\ create_call.timeout = <<5>>
    /\ created.endpoint.timeout = 5
    /\ created.endpoint._endpoint_prefix = "ks3"

\* C19: the verify value of a created Endpoint is the caller's value when
\* it is not None (False included), otherwise the REQUESTS_CA_BUNDLE
\* environment setting when it exists, otherwise True.
C19_VerifyPrecedence ==
    (created # None /\ ~created.raised) =>
        created.endpoint.verify =
            ( IF create_call.verify # None THEN create_call.verify
              ELSE IF "REQUESTS_CA_BUNDLE" \in DOMAIN environ
                   THEN environ.REQUESTS_CA_BUNDLE
                   ELSE PyBool(TRUE) )

C19_Witness ==
    /\ created # None
    /\ ~created.raised
    /\ create_call.verify = PyBool(FALSE)
    /\ "REQUESTS_CA_BUNDLE" \in DOMAIN environ
    /\ created.endpoint.verify = PyBool(FALSE)

\* C20: the retry hook is queried exactly once after each attempt, failed
\* or completed, before make_request returns, raises or starts the next
\* attempt; an attempt whose response body fails to parse is also put to
\* the hook before the parse error reaches the caller.
C20_HookAfterEveryAttempt ==
    Done =>
        /\ Len(Hooks) = Len(Recvs)
        /\ \A k \in 1..Len(Recvs) :
             /\ k <= Len(Hooks)
             /\ Hooks[k].att = Recvs[k].att
             /\ Pos("recv", k) < Pos("hook", k)
             /\ k < Len(Sends) => Pos("hook", k) < Pos("send", k + 1)

\* C21: the k-th needs-retry query of a call carries attempts = k, the
\* endpoint itself and the operation model, and exactly one of response and
\* caught_exception is not None: response is None when the attempt raised,
\* caught_exception is None when it produced a parsed response.
C21_QueryOfKthAttempt ==
    hook_query # None =>
        /\ hook_query.attempts = Len(Hooks)
        /\ hook_query.attempts >= 1
        /\ hook_query.endpoint = "self"
        /\ hook_query.operation = operation_model
        /\ (hook_query.response = None) # (hook_query.caught_exception = None)
        /\ Len(Hooks) = Len(Recvs) =>
             /\ Recvs[Len(Recvs)].att = hook_query.attempts
             /\ IsException(raw_sent) =>
                  /\ hook_query.response = None
                  /\ hook_query.caught_exception = exception
                  /\ IsException(hook_query.caught_exception)
             /\ ~IsException(raw_sent) =>
                  /\ hook_query.caught_exception = None
                  /\ hook_query.response = success_response
                  /\ hook_query.response.http_response = raw_sent
                  /\ hook_query.response.parsed.type = "dict"

C21_Witness ==
    /\ Len(Hooks) = 3
    /\ hook_query # None
    /\ hook_query.attempts = 3
    /\ hook_query.response = None
    /\ hook_query.caught_exception.type = "ConnectionClosedError"

\* C22: a streamed request body is rewound before every attempt after the
\* first: between the retry decision for attempt k and the send of attempt
\* k+1 reset_stream is called exactly once, on the request of attempt k, and
\* the body that attempt k+1 sends is read from its beginning.
C22_StreamRewound ==
    \A k \in 1..(Len(Sends) - 1) :
        LET h == Pos("hook", k)
            s2 == Pos("send", k + 1)
            resets == {i \in h..s2 : events[i].e = "reset_stream"}
        IN  /\ 0 < h
            /\ h < s2
            /\ Cardinality(resets) = 1
            /\ \A i \in resets : events[i].req = Sends[k].req
            /\ Sends[k + 1].body_from = 0

C22_Witness ==
    /\ request_dict # None
    /\ request_dict.body.type = "stream"
    /\ Len(Sends) = 3
    /\ Sends[2].body_from = 0
    /\ Sends[3].body_from = 0
    /\ pc = "hook"
    /\ body_pos = BodyLength

\* ======================================================================
\* Termination of make_request (specification SpecLive)
\* ======================================================================
\* Every send returns or raises, every sleep returns, and a step the call
\* can take is taken: the scheduling of one synchronous call stack.
SpecLive == Init /\ [][Next]_vars /\ WF_vars(Next)

NonEmptyAnswers == SelectSeq(Hooks, LAMBDA x : x.ans # None)

\* C23: make_request terminates when every send and every sleep returns and
\* the hook answers no-retry after finitely many queries; the loop adds no
\* bound of its own: a finished call has made exactly one attempt more than
\* the hook gave non-empty answers, and those answers are consecutive.
C23_TerminatesWithHook ==
    /\ (pc # "idle") ~> Done
    /\ [](Done => /\ Len(Sends) = Len(NonEmptyAnswers) + 1
                  /\ \A k \in 1..(Len(Hooks) - 1) : Hooks[k].ans # None)

C23_Witness ==
    /\ Done
    /\ outcome.type = "returned"
    /\ Len(Sends) = MaxAttempts
    /\ Len(NonEmptyAnswers) = MaxAttempts - 1
    /\ Hooks[Len(Hooks)].ans = None

IsAddClientErrorStep ==
    /\ last_call' # None
    /\ last_call'.op = "add_client_error"

IsErrorEntry(entry) == "Error" \in entry.response.parsed.keys

\* C25: add_client_error enqueues exactly one error entry at the tail
\* without shape validation: its HTTP status is the given one (400 when
\* omitted), its parsed body carries the given code and message and the same
\* status in ResponseMetadata, and its expected_params is None, so the
\* parameters of the call that consumes it are never compared.
C25_AddClientError ==
    [][/\ IsAddClientErrorStep =>
            LET a == last_call'.args
                status == IF a.http_status_code = <<>> THEN 400
                          ELSE a.http_status_code[1]
                entry == _queue'[Len(_queue')]
            IN  /\ last_call'.what = "ok"
                /\ Len(_queue') = Len(_queue) + 1
                /\ SubSeq(_queue', 1, Len(_queue)) = _queue
                /\ entry.operation_name = method_to_api_mapping_get(a.method)
                /\ entry.response.http_response.status_code = status
                /\ entry.response.parsed.ResponseMetadata.HTTPStatusCode = status
                /\ entry.response.parsed.Error.Code = a.service_error_code
                /\ entry.response.parsed.Error.Message = a.service_message
                /\ entry.expected_params = None
       /\ (IsClientCallStep /\ _queue # <<>> /\ IsErrorEntry(_queue[1])) =>
            /\ last_call'.what = "raised" =>
                 last_call'.error.type # "StubAssertionError"
            /\ last_call'.what = "stubbed" => last_call'.response = _queue[1].response
      ]_vars

C25_Witness ==
    /\ last_call # None
    /\ last_call.what = "stubbed"
    /\ last_call.args.params = Dict({"Bucket", "Prefix"})
    /\ last_call.response.http_response.status_code = 400
    /\ last_call.response.parsed.Error.Code = "NoSuchBucket"
    /\ Len(_queue) = 1
    /\ _queue[1].operation_name = None
    /\ _queue[1].response.http_response.status_code = 404

\* ------------------------------------------- CachedProperty (utils.py)
\* A class with one CachedProperty and three instances of it. The property's
\* getter computes its value from the instance at the time it runs, so two
\* runs on one instance need not agree: the value of a run is an input.

Instances == {"obj_a", "obj_b", "obj_c"}
FgetValues == {"v1", "v2"}

\* A reference to an instance; the class access passes None instead.
Obj(i) == [type |-> "object", id |-> i]

\* No entry under the property's name in obj.__dict__.
Missing == [type |-> "Missing"]

\* The CachedProperty object itself, which the class attribute holds.
Descriptor == [type |-> "CachedProperty"]

MutGetWithoutStore(dict, calls, obj, computed_value) ==
    IF obj = None
    THEN [value |-> Descriptor, dict |-> dict, calls |-> calls]
    ELSE [value |-> PyStr(computed_value), dict |-> dict,
          calls |-> [calls EXCEPT ![obj.id] = @ + 1]]

\* CachedProperty.__get__(obj, cls): the class access returns the descriptor;
\* the instance access runs fget, stores the value in obj.__dict__ under
\* fget's name and returns it.
__get__(dict, calls, obj, computed_value) ==
    IF obj = None
    THEN [value |-> Descriptor, dict |-> dict, calls |-> calls]
    ELSE [value |-> PyStr(computed_value),
          dict |-> [dict EXCEPT ![obj.id] = PyStr(computed_value)],
          calls |-> [calls EXCEPT ![obj.id] = @ + 1]]

\* obj.name for a class attribute without __set__: the instance's __dict__
\* is looked up first and __get__ runs only when it has no entry.
getattr(dict, calls, obj, computed_value) ==
    IF obj # None /\ dict[obj.id] # Missing
    THEN [value |-> dict[obj.id], dict |-> dict, calls |-> calls]
    ELSE __get__(dict, calls, obj, computed_value)

CachedInit ==
    /\ obj_dict = [i \in Instances |-> Missing]
    /\ fget_calls = [i \in Instances |-> 0]
    /\ accessed = None

\* One read of the property, on an instance or on the class.
Access ==
    \E obj \in {Obj(i) : i \in Instances} \cup {None}, v \in FgetValues :
        /\ obj # None => fget_calls[obj.id] < MaxFgetCalls
        /\ LET r == getattr(obj_dict, fget_calls, obj, v)
           IN  /\ obj_dict' = r.dict
               /\ fget_calls' = r.calls
               /\ accessed' = [obj |-> obj, value |-> r.value,
                               computed |-> r.calls # fget_calls]
        /\ UNCHANGED except_cached

InitCached == EndpointIdle /\ ConvertIdle /\ StubInit /\ ThreadsIdle /\ CreateIdle /\ CachedInit /\ CacheIdle /\ EncodeIdle /\ CallsIdle /\ VhostIdle /\ MetadataIdle

NextCached == Access

SpecCached == InitCached /\ [][NextCached]_vars

\* C26: fget runs at most once per instance; the first access stores the
\* computed value on the instance, every later access returns the stored
\* value without running fget, and an access to one instance leaves the
\* stored values and the call counts of the others alone.
C26_CachedPropertyOnce ==
    [][\A i \in Instances :
          /\ fget_calls'[i] <= 1
          /\ fget_calls'[i] = 1 <=> obj_dict'[i] # Missing
          /\ obj_dict[i] # Missing =>
                /\ obj_dict'[i] = obj_dict[i]
                /\ fget_calls'[i] = fget_calls[i]
                /\ accessed'.obj = Obj(i) => accessed'.value = obj_dict[i]
          /\ (obj_dict[i] = Missing /\ accessed'.obj = Obj(i)) =>
                /\ accessed'.computed
                /\ obj_dict'[i] = accessed'.value
          /\ accessed'.obj # Obj(i) =>
                /\ obj_dict'[i] = obj_dict[i]
                /\ fget_calls'[i] = fget_calls[i]
      ]_vars

C26_Witness ==
    /\ accessed # None
    /\ accessed.obj = Obj("obj_a")
    /\ ~accessed.computed
    /\ accessed.value = PyStr("v1")
    /\ fget_calls["obj_a"] = 1
    /\ obj_dict["obj_b"] = PyStr("v2")
    /\ obj_dict["obj_c"] = Missing

\* ------------------------------------------- instance_cache (utils.py)
\* A class with one method wrapped by instance_cache and two instances of
\* it, each with its own _instance_cache dict. What the wrapped method
\* returns is its own business, None included: the result of a run is an
\* input.

CacheInstances == {"obj_a", "obj_b"}
func_name == "func"
Results == {None, PyStr("r1"), PyStr("r2")}

\* Keyword names in the order Python's str comparison puts them.
KwargOrder == <<"a", "b">>
kwarg_rank(name) == CHOOSE i \in 1..Len(KwargOrder) : KwargOrder[i] = name

\* The ways the method is called: func(1), func(1, a=1, b=2) and
\* func(1, b=2, a=1); kwargs lists the items in the order they were passed.
CallShapes ==
    { [args |-> <<1>>, kwargs |-> <<>>],
      [args |-> <<1>>, kwargs |-> <<[k |-> "a", v |-> 1], [k |-> "b", v |-> 2]>>],
      [args |-> <<1>>, kwargs |-> <<[k |-> "b", v |-> 2], [k |-> "a", v |-> 1]>>] }

RECURSIVE insert_sorted(_, _)
insert_sorted(item, items) ==
    IF items = <<>> THEN <<item>>
    ELSE IF kwarg_rank(item.k) <= kwarg_rank(Head(items).k) THEN <<item>> \o items
    ELSE <<Head(items)>> \o insert_sorted(item, Tail(items))

\* sorted(kwargs.items())
RECURSIVE sorted(_)
sorted(items) ==
    IF items = <<>> THEN <<>> ELSE insert_sorted(Head(items), sorted(Tail(items)))

\* The cache key: (func_name, args), or (func_name, args, kwarg_items) when
\* keyword arguments were passed. kwarg_items is <<>> for the pair and
\* <<items>> for the triple.
cache_key(args, kwargs) ==
    IF kwargs # <<>>
    THEN [func_name |-> func_name, args |-> args, kwarg_items |-> <<sorted(kwargs)>>]
    ELSE [func_name |-> func_name, args |-> args, kwarg_items |-> <<>>]

CacheKeys == {cache_key(c.args, c.kwargs) : c \in CallShapes}

\* dict.get(key): None when the key is absent.
dict_get(d, key) == IF d[key] = Missing THEN None ELSE d[key]

\* _cache_guard(self, *args, **kwargs), given what func would return if it
\* ran now: the stored result when it is not None, else func's result, stored.
_cache_guard(cache, args, kwargs, func_result) ==
    LET key == cache_key(args, kwargs)
        result == dict_get(cache, key)
    IN  IF result # None
        THEN [result |-> result, cache |-> cache, invoked |-> FALSE, key |-> key]
        ELSE [result |-> func_result, cache |-> [cache EXCEPT ![key] = func_result],
              invoked |-> TRUE, key |-> key]

CacheInit ==
    /\ _instance_cache = [i \in CacheInstances |-> [k \in CacheKeys |-> Missing]]
    /\ invocations = [i \in CacheInstances |-> [k \in CacheKeys |-> 0]]
    /\ cache_call = None

\* One call obj.func(*args, **kwargs).
CallCached ==
    \E obj \in CacheInstances, c \in CallShapes, func_result \in Results :
        LET r == _cache_guard(_instance_cache[obj], c.args, c.kwargs, func_result)
        IN  /\ invocations[obj][r.key] < MaxInvocations
            /\ _instance_cache' = [_instance_cache EXCEPT ![obj] = r.cache]
            /\ invocations' = IF r.invoked
                              THEN [invocations EXCEPT ![obj][r.key] = @ + 1]
                              ELSE invocations
            /\ cache_call' = [obj |-> obj, args |-> c.args, kwargs |-> c.kwargs,
                              key |-> r.key, result |-> r.result, invoked |-> r.invoked]
            /\ UNCHANGED except_cache

InitCache == EndpointIdle /\ ConvertIdle /\ StubInit /\ ThreadsIdle /\ CreateIdle /\ CachedIdle /\ CacheInit /\ EncodeIdle /\ CallsIdle /\ VhostIdle /\ MetadataIdle

NextCache == CallCached

SpecCache == InitCache /\ [][NextCache]_vars

\* C27: per instance and per arguments the wrapped method runs at most once,
\* whatever it returns: every call returns the result stored by the first
\* run for its instance and arguments (keyword arguments in any order), and
\* an instance has an entry only for what was run on that instance.
C27_InstanceCacheOnce ==
    /\ \A i \in CacheInstances, k \in CacheKeys :
          /\ invocations[i][k] <= 1
          /\ invocations[i][k] = 0 <=> _instance_cache[i][k] = Missing
    /\ cache_call # None =>
          /\ cache_call.key = cache_key(cache_call.args, sorted(cache_call.kwargs))
          /\ cache_call.result = _instance_cache[cache_call.obj][cache_call.key]

\* What does hold: a result other than None is stored once and served from
\* the cache from then on, for keyword arguments in any order, and entries
\* of one instance never come from a run on another.
C27_NonNoneCachedOnce ==
    [][/\ \A i \in CacheInstances, k \in CacheKeys :
             /\ invocations[i][k] = 0 <=> _instance_cache[i][k] = Missing
             /\ (_instance_cache[i][k] \notin {Missing, None}) =>
                   /\ _instance_cache'[i][k] = _instance_cache[i][k]
                   /\ invocations'[i][k] = invocations[i][k]
                   /\ (cache_call'.obj = i /\ cache_call'.key = k) =>
                         /\ ~cache_call'.invoked
                         /\ cache_call'.result = _instance_cache[i][k]
             /\ (cache_call'.obj # i \/ cache_call'.key # k) =>
                   /\ _instance_cache'[i][k] = _instance_cache[i][k]
                   /\ invocations'[i][k] = invocations[i][k]
       /\ cache_call'.key = cache_key(cache_call'.args, sorted(cache_call'.kwargs))
      ]_vars

C27_NoneRunsAgain ==
    /\ cache_call # None
    /\ cache_call.invoked
    /\ invocations[cache_call.obj][cache_call.key] = 2
    /\ cache_call.kwargs # <<>>
    /\ cache_call.result # None

StepKinds == {"create", "request-created", "encode_headers", "prepare", "send"}

\* The kinds of the steps taken on request object id, in the order taken.
StepsOn(id) ==
    LET on == SelectSeq(events, LAMBDA x : x.e \in StepKinds /\ x.req = id)
    IN  [i \in 1..Len(on) |-> on[i].e]

\* C28: each attempt creates its own request object, emits request-created
\* with it (only when an operation model is given), encodes its headers,
\* prepares it and only then sends it, each step once and in this order;
\* what is sent carries the handler's mutation, encoded with the rest.
C28_StepsInOrder ==
    /\ \A k \in 1..Len(Sends) :
          /\ StepsOn(Sends[k].req) =
                <<"create", "request-created", "encode_headers", "prepare", "send">>
          /\ \A j \in 1..(k - 1) : Sends[j].req # Sends[k].req
    /\ pc = "send" =>
          StepsOn(request.id) = <<"create", "request-created", "encode_headers", "prepare">>
    /\ request # None =>
          /\ DOMAIN request.headers = DOMAIN request_dict.headers \cup {"Authorization"}
          /\ request.headers["Authorization"] = Bytes(encode(Signature.points))
          /\ \A key \in DOMAIN request_dict.headers :
                request.headers[key] = _encode_headers(request_dict.headers)[key]
          /\ \A key \in DOMAIN request.headers : request.headers[key].type # "text"
    /\ \A params \in RequestDicts :
          /\ create_request_steps(None) = <<"create", "encode_headers", "prepare">>
          /\ DOMAIN create_request(params, None, 1).headers = DOMAIN params.headers

C28_Witness ==
    /\ pc = "inflight"
    /\ Len(Sends) = 3
    /\ request.id = 3
    /\ StepsOn(2) = <<"create", "request-created", "encode_headers", "prepare", "send">>
    /\ "Content-MD5" \in DOMAIN request.headers
    /\ request.headers["Content-MD5"] = ContentMD5
    /\ request.headers["User-Agent"] = Bytes(<<107, 115, 47, 195, 169>>)
    /\ request.headers["Authorization"] = Bytes(<<75, 83, 226, 130, 172>>)

\* ------------------------------------ prepare_request (endpoint.py)
\* One request object whose headers mix text, byte strings and numbers,
\* handed to prepare_request once, and again as a retry that shared the
\* mapping would.

HeaderKeys == {"Host", "X-Meta", "Content-Length"}

\* "A", "é€" and U+1F600 as text, "é" as the octets of its UTF-8 form, 3.
HeaderValues ==
    { Text(<<65>>), Text(<<233, 8364>>), Text(<<128512>>), Bytes(<<195, 169>>),
      Number(3) }

HeaderMaps == UNION {[keys -> HeaderValues] : keys \in SUBSET HeaderKeys}

\* prepare_request(request): the headers of the request object afterwards
\* and the prepared request returned.
prepare_request(req) ==
    LET encoded == [req EXCEPT !.headers = _encode_headers(req.headers)]
    IN  [request |-> encoded, prepared |-> prepare(encoded)]

EncodeInit ==
    /\ \E h \in HeaderMaps :
          /\ prepare_arg = create_request_object(
                 [url |-> "https://svc.example.com/a", method |-> "GET",
                  body |-> BytesBody, headers |-> h], 1)
          /\ headers_before = h
    /\ prepared = None
    /\ n_prepared = 0

PrepareRequest ==
    /\ n_prepared < MaxPrepares
    /\ LET r == prepare_request(prepare_arg)
       IN  /\ prepare_arg' = r.request
           /\ prepared' = r.prepared
    /\ n_prepared' = n_prepared + 1
    /\ UNCHANGED headers_before
    /\ UNCHANGED except_encode

InitEncode == EndpointIdle /\ ConvertIdle /\ StubInit /\ ThreadsIdle /\ CreateIdle /\ CachedIdle /\ CacheIdle /\ EncodeInit /\ CallsIdle /\ VhostIdle /\ MetadataIdle

NextEncode == PrepareRequest

SpecEncode == InitEncode /\ [][NextEncode]_vars

\* C30: after prepare_request the request's own header mapping has the same
\* keys, no text value, the UTF-8 bytes of every value that was text and
\* every other value as it was; the prepared request carries these headers,
\* and a further prepare_request leaves them as they are.
C30_HeadersEncodedInPlace ==
    n_prepared >= 1 =>
        LET after == prepare_arg.headers
        IN  /\ DOMAIN after = DOMAIN headers_before
            /\ \A key \in DOMAIN after :
                  /\ after[key].type # "text"
                  /\ headers_before[key].type = "text" =>
                        after[key] = Bytes(encode(headers_before[key].points))
                  /\ headers_before[key].type # "text" => after[key] = headers_before[key]
            /\ prepared.headers = after
            /\ prepare_request(prepare_arg).request = prepare_arg

C30_Witness ==
    /\ n_prepared = 2
    /\ headers_before = [key \in HeaderKeys |->
                            IF key = "Host" THEN Text(<<233, 8364>>)
                            ELSE IF key = "X-Meta" THEN Bytes(<<195, 169>>)
                            ELSE Text(<<128512>>)]
    /\ prepare_arg.headers["Host"] = Bytes(<<195, 169, 226, 130, 172>>)
    /\ prepare_arg.headers["X-Meta"] = Bytes(<<195, 169>>)
    /\ prepare_arg.headers["Content-Length"] = Bytes(<<240, 159, 152, 128>>)

\* make_request on an Endpoint constructed in either way.
InitConfigured == EndpointLocals /\ endpoint \in Endpoints /\ ConvertIdle /\ StubInit /\ ThreadsIdle /\ CreateIdle /\ CachedIdle /\ CacheIdle /\ EncodeIdle /\ CallsIdle /\ VhostIdle /\ MetadataIdle

SpecConfigured == InitConfigured /\ [][Next]_vars

\* C29: every attempt is sent with the verify, proxies and timeout of the
\* Endpoint as it was constructed and with stream = the operation's
\* has_streaming_output, and no step of make_request changes the Endpoint's
\* host, verify, proxies or timeout.
C29_SentWithBoundConfiguration ==
    /\ [](/\ endpoint \in Endpoints
          /\ \A k \in 1..Len(Sends) :
                /\ Sends[k].verify = endpoint.verify
                /\ Sends[k].proxies = endpoint.proxies
                /\ Sends[k].timeout = endpoint.timeout
                /\ Sends[k].stream = operation_model.has_streaming_output)
    /\ [][/\ endpoint'.host = endpoint.host
          /\ endpoint'.verify = endpoint.verify
          /\ endpoint'.proxies = endpoint.proxies
          /\ endpoint'.timeout = endpoint.timeout]_vars

C29_Witness ==
    /\ Done
    /\ Len(Sends) = 3
    /\ endpoint.timeout = 5
    /\ Sends[3].timeout = 5
    /\ Sends[3].verify = CaBundlePath
    /\ Sends[3].proxies = Dict({"https"})
    /\ Sends[3].stream
    /\ Sends[1].stream

\* ------------------------- concurrent make_request calls (endpoint.py)
\* Two threads call make_request on one Endpoint. Each call has its own
\* locals (attempts, the current request); the threads share the Endpoint's
\* fields, of which only _lock could make one wait for the other.

Callers == {"t1", "t2"}

\* threading.Lock(): created unlocked
Unlocked == [type |-> "unlocked"]
LockedBy(t) == [type |-> "locked", by |-> t]

\* The send is made under the Endpoint's lock.
MutSendAcquiresLock(lock, t) ==
    IF lock = Unlocked THEN [lock |-> LockedBy(t), blocked |-> FALSE]
    ELSE [lock |-> lock, blocked |-> TRUE]

\* What _get_response does with self._lock before http_session.send:
\* nothing, no statement of the class acquires it.
lock_for_send(lock, t) == [lock |-> lock, blocked |-> FALSE]

CallAt(t, where) == call_of[t].pc = where

\* The prepared request that caller t builds for its attempt att: each
\* create_request call returns a new object.
CallRequest(t, att) == [type |-> "KSPreparedRequest", by |-> t, att |-> att]

\* What an attempt ends in, for the request that was sent.
AttemptResult(req, kind) == [type |-> kind, request |-> req]

\* attempts is a field of the Endpoint: every caller counts on from the
\* highest count any caller has reached.
MutAttemptsOnEndpoint(c, t) ==
    CHOOSE n \in {c[u].attempts + 1 : u \in Callers} :
        \A u \in Callers : c[u].attempts + 1 <= n

\* attempts += 1 on the local of caller t's _send_request
increment_attempts(c, t) == c[t].attempts + 1

\* The end of _send_request for the latest attempt's result.
CallFinish(last) ==
    IF last.type = "exception" THEN Raised(last) ELSE Returned(last)

CallsInit ==
    /\ call_of = [t \in Callers |->
                    [pc |-> "idle", attempts |-> 0, request |-> None, last |-> None,
                     queries |-> <<>>, outcome |-> None]]
    /\ _lock = Unlocked

\* make_request up to the first send: attempts = 1, the request is created.
CallMakeRequest(t) ==
    /\ CallAt(t, "idle")
    /\ call_of' = [call_of EXCEPT ![t].pc = "send", ![t].attempts = 1,
                                  ![t].request = CallRequest(t, 1)]
    /\ UNCHANGED _lock
    /\ UNCHANGED except_calls

\* _get_response: http_session.send is called.
CallSendStart(t) ==
    /\ CallAt(t, "send")
    /\ LET l == lock_for_send(_lock, t)
       IN  /\ _lock' = l.lock
           /\ call_of' = [call_of EXCEPT ![t].pc = IF l.blocked THEN "wait_lock"
                                               ELSE "inflight"]
    /\ UNCHANGED except_calls

\* The send returns or raises: the error leaves the call, or the hook is next.
CallSendReturn(t) ==
    /\ CallAt(t, "inflight")
    /\ \E kind \in {"response", "exception", "parse_error"} :
          LET result == AttemptResult(call_of[t].request, kind)
          IN  IF kind = "parse_error"
              THEN call_of' = [call_of EXCEPT ![t].pc = "done",
                                              ![t].outcome = Raised(result)]
              ELSE call_of' = [call_of EXCEPT ![t].pc = "hook", ![t].last = result]
    /\ UNCHANGED _lock
    /\ UNCHANGED except_calls

\* _needs_retry and the loop: no retry, or a sleep before the next attempt.
CallNeedsRetry(t) ==
    /\ CallAt(t, "hook")
    /\ \E handler_answer \in HandlerAnswers(call_of[t].attempts) :
          LET queries == Append(call_of[t].queries, call_of[t].attempts)
          IN  IF handler_answer = None
              THEN call_of' = [call_of EXCEPT ![t].pc = "done", ![t].queries = queries,
                                              ![t].outcome = CallFinish(call_of[t].last)]
              ELSE call_of' = [call_of EXCEPT ![t].pc = "sleeping",
                                              ![t].queries = queries]
    /\ UNCHANGED _lock
    /\ UNCHANGED except_calls

\* time.sleep returns; the next attempt's request is created.
CallSleepReturn(t) ==
    /\ CallAt(t, "sleeping")
    /\ LET att == increment_attempts(call_of, t)
       IN  call_of' = [call_of EXCEPT ![t].pc = "send", ![t].attempts = att,
                                      ![t].request = CallRequest(t, att)]
    /\ UNCHANGED _lock
    /\ UNCHANGED except_calls

InitCalls == EndpointIdle /\ ConvertIdle /\ StubInit /\ ThreadsIdle /\ CreateIdle /\ CachedIdle /\ CacheIdle /\ EncodeIdle /\ CallsInit /\ VhostIdle /\ MetadataIdle

NextCalls ==
    \E t \in Callers :
        \/ CallMakeRequest(t)
        \/ CallSendStart(t)
        \/ CallSendReturn(t)
        \/ CallNeedsRetry(t)
        \/ CallSleepReturn(t)

SpecCalls == InitCalls /\ [][NextCalls]_vars

\* C24: the Endpoint has a lock, and no make_request call takes it on the
\* send path: the lock is never held, no call ever waits for it, and a call
\* that is about to send can always go on, wherever the other call is.
C24_SendPathTakesNoLock ==
    /\ _lock = Unlocked
    /\ \A t \in Callers :
          /\ ~CallAt(t, "wait_lock")
          /\ CallAt(t, "send") => ENABLED CallSendStart(t)
          /\ CallAt(t, "sleeping") => ENABLED CallSleepReturn(t)

C24_Witness ==
    /\ CallAt("t1", "inflight")
    /\ CallAt("t2", "sleeping")
    /\ call_of["t1"].attempts = 2
    /\ call_of["t2"].attempts = 1

\* The event that follows the k-th hook query, None when it is the last one.
AfterHook(k) ==
    IF Pos("hook", k) < Len(events) THEN events[Pos("hook", k) + 1] ELSE None

\* C31: the answer of the hook is tested for None, not for truth: after any
\* answer other than None, a delay of 0 included, the call sleeps that long,
\* counts the next attempt, builds a new request and sends it; only after
\* the answer None does the loop end, with no sleep and no further send.
C31_ZeroDelayRetries ==
    \A k \in 1..Len(Hooks) :
        IF Hooks[k].ans = None
        THEN /\ k = Len(Hooks)
             /\ Len(Sleeps) = k - 1
             /\ Len(Sends) = k
             /\ AfterHook(k) # None => AfterHook(k).e \in {"return", "raise"}
        ELSE /\ Len(Sleeps) >= k
             /\ AfterHook(k) = EvSleep(Hooks[k].ans.value)
             /\ Len(Wakes) >= k =>
                   /\ Wakes[k].secs = Hooks[k].ans.value
                   /\ Len(Creates) >= k + 1
                   /\ Creates[k + 1].req # Creates[k].req
                   /\ Pos("wake", k) < Pos("create", k + 1)
                   /\ pc # "send" =>
                         /\ Len(Sends) >= k + 1
                         /\ Sends[k + 1].att = k + 1
                         /\ Sends[k + 1].req = Creates[k + 1].req
             /\ (k = Len(Hooks) /\ pc \notin {"sleeping", "send"}) => attempts = k + 1

C31_Witness ==
    /\ Done
    /\ Len(Sends) = 3
    /\ Len(Hooks) = 3
    /\ Hooks[1].ans = Seconds(0)
    /\ Hooks[2].ans = Seconds(0)
    /\ Hooks[3].ans = None
    /\ Sleeps[2].secs = 0
    /\ Sends[3].att = 3
    /\ outcome.type = "returned"

\* C32: a ConnectionError is reclassified only when it carries a request: one
\* whose request is None, whatever its text, is captured as it is, handed to
\* the hook and raised to the caller when no retry is ordered; deciding this
\* never raises an error of its own.
C32_NullRequestStaysRaw ==
    /\ (raw_sent.type = "ConnectionError" /\ raw_sent.request = None) =>
          /\ exception = raw_sent
          /\ HookSawLastAttempt =>
                /\ hook_query.caught_exception = raw_sent
                /\ hook_query.response = None
          /\ Done => outcome = Raised(raw_sent)
    /\ (exception # None /\ exception.type = "EndpointConnectionError") =>
          /\ exception.error.type = "ConnectionError"
          /\ exception.error.request # None
          /\ exception.endpoint_url = exception.error.request.url
    /\ (exception # None /\ exception.type = "ConnectionClosedError") =>
          /\ exception.request # None
          /\ exception.msg_url = exception.request.url
    /\ (outcome # None /\ outcome.type = "raised") =>
          outcome.error.type # "AttributeError"

C32_Witness ==
    /\ Done
    /\ raw_sent.type = "ConnectionError"
    /\ raw_sent.request = None
    /\ raw_sent.text = {"gaierror", "BadStatusLine"}
    /\ raw_sent.att = 2
    /\ hook_query.caught_exception = raw_sent
    /\ outcome = Raised(raw_sent)

\* C33: attempts and the current request are locals of each call: however
\* the attempts of two calls on one Endpoint interleave, the hook queries of
\* a call carry 1, 2, 3, ... in order, every request a call sends is one it
\* built for that attempt, and the call ends with the result of its own
\* latest attempt.
C33_LocalsPerCall ==
    \A t \in Callers :
        LET c == call_of[t]
        IN  /\ \A k \in 1..Len(c.queries) : c.queries[k] = k
            /\ Len(c.queries) \in {c.attempts - 1, c.attempts}
            /\ c.pc \in {"sleeping"} => Len(c.queries) = c.attempts
            /\ c.request # None => c.request = CallRequest(t, c.attempts)
            /\ c.last # None =>
                  /\ c.last.request.by = t
                  /\ c.last.request.att \in {c.attempts - 1, c.attempts}
            /\ c.pc = "done" =>
                  LET result == IF c.outcome.type = "raised" THEN c.outcome.error
                                ELSE c.outcome.value
                  IN  /\ result.request = CallRequest(t, c.attempts)
                      /\ c.outcome.type = "returned" <=> result.type = "response"

C33_Witness ==
    /\ CallAt("t1", "done")
    /\ call_of["t1"].queries = <<1, 2, 3>>
    /\ call_of["t1"].outcome.type = "raised"
    /\ call_of["t1"].outcome.error.type = "exception"
    /\ CallAt("t2", "inflight")
    /\ call_of["t2"].attempts = 2
    /\ call_of["t2"].last.type = "response"

IsQueueNeutralStep ==
    /\ last_call' # None
    /\ last_call'.op \in {"activate", "deactivate", "assert_no_pending_responses"}

\* C34: activate, deactivate and assert_no_pending_responses leave the queue
\* as it is, entries and order, whether the assertion passes or fails (it
\* fails exactly on a non-empty queue); so whatever cycle of them lies in
\* between, a stubbed call is served the entry at the head and the rest
\* stays queued in order.
C34_QueueUntouched ==
    [][/\ IsQueueNeutralStep =>
             /\ _queue' = _queue
             /\ enqueued' = enqueued
             /\ served' = served
             /\ last_call'.op = "assert_no_pending_responses" =>
                   (last_call'.what = "raised" <=> _queue # <<>>)
             /\ last_call'.op # "assert_no_pending_responses" =>
                   last_call'.what = "ok"
       /\ (IsClientCallStep /\ last_call'.what = "stubbed") =>
             /\ last_call'.response = _queue[1].response
             /\ _queue' = Tail(_queue)
      ]_vars

C34_Witness ==
    /\ last_call # None
    /\ last_call.op = "deactivate"
    /\ ~active
    /\ Len(served) = 1
    /\ Len(_queue) = 1
    /\ Len(enqueued) = 2
    /\ enqueued[1].response = served[1]
    /\ enqueued[2] = _queue[1]

\* C35: add_response for a method name the client has no attribute of
\* raises ValueError, whatever the response and the expected parameters
\* are, and neither the queue nor the caller's response dict changes; for a
\* name the client has, the call never raises ValueError.
C35_UnknownMethodValueError ==
    [][IsAddResponseStep =>
          IF hasattr_client(last_call'.args.method)
          THEN last_call'.what = "raised" => last_call'.error.type # "ValueError"
          ELSE /\ last_call'.what = "raised"
               /\ last_call'.error = [type |-> "ValueError"]
               /\ last_call'.response = last_call'.args.service_response
               /\ _queue' = _queue
               /\ enqueued' = enqueued
               /\ served' = served
               /\ active' = active
      ]_vars

C35_Witness ==
    /\ last_call # None
    /\ last_call.op = "add_response"
    /\ last_call.args.method = "no_such_method"
    /\ last_call.args.service_response = Dict({"ResponseMetadata"})
    /\ last_call.error = [type |-> "ValueError"]
    /\ Len(_queue) = 1
    /\ Len(enqueued) = 1

HeadHasNoOperation == _queue # <<>> /\ _queue[1].operation_name = None

\* C36: add_client_error enqueues an entry also for a method without API
\* mapping, with operation name None; while such an entry is at the head,
\* every stubbed call raises the operation-mismatch StubResponseError, the
\* entry stays at the head, and assert_no_pending_responses raises.
C36_UnmappedErrorBlocksQueue ==
    [][/\ (IsAddClientErrorStep
             /\ method_to_api_mapping_get(last_call'.args.method) = None) =>
             /\ last_call'.what = "ok"
             /\ Len(_queue') = Len(_queue) + 1
             /\ _queue'[Len(_queue')].operation_name = None
       /\ HeadHasNoOperation =>
             /\ _queue' # <<>>
             /\ _queue'[1] = _queue[1]
             /\ IsClientCallStep =>
                   /\ last_call'.what = "raised"
                   /\ last_call'.error =
                         StubResponseError(last_call'.op, "Operation mismatch")
                   /\ _queue' = _queue
                   /\ served' = served
             /\ (last_call' # None /\ last_call'.op = "assert_no_pending_responses") =>
                   /\ last_call'.what = "raised"
                   /\ last_call'.error.type = "AssertionError"
      ]_vars

C36_Witness ==
    /\ HeadHasNoOperation
    /\ Len(_queue) = 2
    /\ _queue[2].operation_name = [type |-> "str", value |-> "ListObjects"]
    /\ last_call # None
    /\ last_call.op = "ListObjects"
    /\ last_call.what = "raised"
    /\ last_call.error = StubResponseError("ListObjects", "Operation mismatch")
    /\ served = <<>>

(***************************************************************************)
(* switch_to_virtual_host_style (utils.py)                                 *)
(***************************************************************************)

\* "sep".join(parts)
RECURSIVE join(_, _)
join(parts, sep) ==
    IF parts = <<>> THEN <<>>
    ELSE IF Len(parts) = 1 THEN parts[1]
    ELSE parts[1] \o sep \o join(Tail(parts), sep)

\* list.remove(x): the list without the first element equal to x
remove(list, x) ==
    LET i == CHOOSE k \in 1..Len(list) : list[k] = x /\ \A j \in 1..(k - 1) : list[j] # x
    IN  SubSeq(list, 1, i - 1) \o SubSeq(list, i + 1, Len(list))

\* s.endswith(suffix)
endswith(s, suffix) ==
    /\ Len(s) >= Len(suffix)
    /\ SubSeq(s, Len(s) - Len(suffix) + 1, Len(s)) = suffix

\* The schemes that urlunsplit writes with "//" even when the netloc is empty.
uses_netloc == {<<"h", "t", "t", "p">>, Https}

\* urlunsplit((scheme, netloc, url, query, '')): the parts put together again;
\* the fragment the handler passes is always empty.
urlunsplit(scheme, netloc, path, query) ==
    LET with_netloc == \/ netloc # <<>>
                       \/ /\ scheme # <<>>
                          /\ scheme \in uses_netloc
                          /\ SubSeq(path, 1, 2) # <<"/", "/">>
        rooted == IF path # <<>> /\ path[1] # "/" THEN <<"/">> \o path ELSE path
        u1 == IF with_netloc THEN <<"/", "/">> \o netloc \o rooted ELSE path
        u2 == IF scheme # <<>> THEN scheme \o <<":">> \o u1 ELSE u1
    IN  IF query # <<>> THEN u2 \o <<"?">> \o query ELSE u2

\* len(bucket_name) < 3
MinBucketLength == 3
\* len(bucket_name) > 63
MaxBucketLength == 63

\* LABEL_RE = '[a-z0-9][a-z0-9\-]*[a-z0-9]'
LabelEdge == {LowerAlphabet[i] : i \in 1..Len(LowerAlphabet)} \cup Digits

\* LABEL_RE.match(name).end(): the end of the longest text at the start of
\* name that begins and ends with a letter or digit and holds only those and
\* "-"; None when there is no match.
label_match_end(name) ==
    LET ends == {e \in 2..Len(name) :
                    /\ name[1] \in LabelEdge
                    /\ name[e] \in LabelEdge
                    /\ \A k \in 2..(e - 1) : name[k] \in LabelEdge \cup {"-"}}
    IN  IF ends = {} THEN None
        ELSE [type |-> "match", end |-> CHOOSE e \in ends : \A f \in ends : f <= e]

check_dns_name(bucket_name) ==
    IF \E i \in 1..Len(bucket_name) : bucket_name[i] = "."
    THEN FALSE
    ELSE IF Len(bucket_name) < MinBucketLength \/ Len(bucket_name) > MaxBucketLength
    THEN FALSE
    ELSE LET match == label_match_end(bucket_name)
         IN  match # None /\ match.end = Len(bucket_name)

_is_get_bucket_location_request(req) ==
    endswith(req.url, <<"?", "l", "o", "c", "a", "t", "i", "o", "n">>)

InvalidDNSNameError(bucket_name) ==
    [type |-> "exception", class |-> "InvalidDNSNameError", bucket_name |-> bucket_name]

\* What one application leaves behind: the request and the error raised, if any.
Switched(req, raised) == [request |-> req, raised |-> raised]

\* The handler from the look at the bucket name on: parts is
\* urlsplit(request.url), path_parts is parts.path.split('/').
switch_bucket(req, parts, path_parts, global_endpoint) ==
    LET bucket_name == path_parts[2]
        with_path == [req EXCEPT !.auth_path = PyStr(parts.path)]
        slashed == IF Len(path_parts) = 2 /\ parts.path[Len(parts.path)] # "/"
                   THEN [req EXCEPT !.auth_path = PyStr(parts.path \o <<"/">>)]
                   ELSE [req EXCEPT !.auth_path = PyStr(parts.path)]
        joined == join(remove(path_parts, path_parts[2]), <<"/">>)
        host == path_parts[2] \o <<".">> \o global_endpoint
    IN  IF Len(path_parts) <= 1 THEN Switched(with_path, None)
        ELSE IF bucket_name = <<>> THEN Switched(with_path, None)
        ELSE IF check_dns_name(bucket_name)
        THEN Switched([slashed EXCEPT !.url =
                          urlunsplit(parts.scheme, host,
                                     IF joined = <<>> THEN <<"/">> ELSE joined,
                                     parts.query)], None)
        ELSE Switched(with_path, InvalidDNSNameError(bucket_name))

\* parts = urlsplit(request.url) and what follows it.
switch_parts(req, parts, default_endpoint_url) ==
    switch_bucket(req, parts, split(parts.path, "/"),
                  IF default_endpoint_url = None THEN parts.netloc
                  ELSE default_endpoint_url.value)

\* The handler after its two early returns: auth_path is set from the path
\* before the bucket name is looked at.
switch_body(req, default_endpoint_url) ==
    switch_parts(req, urlsplit(req.url), default_endpoint_url)

\* The same handler without the test of request.auth_path.
MutSwitchIgnoresAuthPath(req, default_endpoint_url) ==
    IF _is_get_bucket_location_request(req) THEN Switched(req, None)
    ELSE switch_body(req, default_endpoint_url)

\* switch_to_virtual_host_style(request, signature_version, default_endpoint_url)
switch_to_virtual_host_style(req, default_endpoint_url) ==
    IF req.auth_path # None THEN Switched(req, None)
    ELSE IF _is_get_bucket_location_request(req) THEN Switched(req, None)
    ELSE switch_body(req, default_endpoint_url)

\* The requests the handler is applied to: before-sign of an S3 call, the
\* request new (auth_path None) and its url in path style.
S3Host == <<"s", "3", ".", "k", "s", "y", "u", "n", ".", "c", "o", "m">>
S3Paths ==
    {<<>>,
     <<"/">>,
     <<"/", "b", "u", "c", "k", "e", "t">>,
     <<"/", "b", "u", "c", "k", "e", "t", "/">>,
     <<"/", "b", "u", "c", "k", "e", "t", "/", "k", "e", "y">>,
     <<"/", "k", "e", "y", "/", "k", "e", "y">>,
     <<"/", "/", "k", "e", "y">>,
     <<"/", "B", "u", "c", "k", "e", "t", "/", "k", "e", "y">>,
     <<"/", "m", "y", ".", "b", "u", "c", "k", "e", "t", "/", "k", "e", "y">>,
     <<"/", "a", "b">>,
     <<"/", "b", "u", "c", "k", "e", "t", "-", "/", "k", "e", "y">>,
     <<"/", "b", "u", "c", "k", "e", "t", "?", "l", "o", "c", "a", "t", "i", "o", "n">>,
     <<"/", "b", "u", "c", "k", "e", "t", "/", "k", "e", "y", "?", "a", "c", "l">>,
     <<"/", "b", "u", "c", "k", "e", "t", "?", "a", "c", "l">>,
     <<"/", "b", "u", "c", "k", "e", "t", "/", "a", "/", "b">>,
     <<"/", "b", "u", "c", "k", "e", "t", "/", "/", "k", "e", "y">>,
     <<"/", "b", "-", "k", "/", "k", "e", "y">>,
     <<"/", "1", "2", "3">>,
     <<"/", "B", "U", "C", "K", "E", "T">>,
     <<"/", "b", "u", "c", "k", "e", "t", "/", "?", "l", "o", "c", "a", "t", "i", "o", "n">>,
     <<"/", "-", "b", "k", "/", "k", "e", "y">>,
     <<"/", "a", ".", "b">>}
S3Request(path) == [url |-> Https \o SchemeSep \o S3Host \o path, auth_path |-> None]
DefaultEndpointUrls == {None, PyStr(<<"k", "s", "3", ".", "c", "n">>)}

VhostInit ==
    /\ vh_request \in {S3Request(p) : p \in S3Paths}
    /\ vh_default \in DefaultEndpointUrls
    /\ vh_first = None
    /\ vh_last = None
    /\ vh_calls = 0

\* The handler runs on the request: once for the first attempt and again for
\* each retry of the same request.
Switch ==
    /\ vh_calls < MaxSwitches
    /\ LET done == switch_to_virtual_host_style(vh_request, vh_default)
       IN  /\ vh_request' = done.request
           /\ vh_last' = IF done.raised = None THEN Returned(None) ELSE Raised(done.raised)
           /\ vh_first' = IF vh_calls = 0
                          THEN [request |-> done.request, before |-> vh_request,
                                raised |-> done.raised]
                          ELSE vh_first
    /\ vh_calls' = vh_calls + 1
    /\ UNCHANGED <<vh_default, except_vhost>>

InitVhost == EndpointIdle /\ ConvertIdle /\ StubInit /\ ThreadsIdle /\ CreateIdle /\ CachedIdle /\ CacheIdle /\ EncodeIdle /\ CallsIdle /\ VhostInit /\ MetadataIdle
NextVhost == Switch
SpecVhost == InitVhost /\ [][NextVhost]_vars

\* C37: an application of switch_to_virtual_host_style to a request that
\* already carries an auth_path (the second application, as on a retry)
\* changes neither url nor auth_path and raises nothing, whatever the first
\* application did: rewrote the host, returned on an empty bucket name, or
\* raised InvalidDNSNameError.
C37_SecondSwitchSuppressed ==
    [][(Switch /\ vh_request.auth_path # None) =>
          /\ vh_request' = vh_request
          /\ vh_last' = Returned(None)]_vars

\* The handler has run twice on a request that the first run rewrote, and
\* the request is as the first run left it.
C37_Witness ==
    /\ vh_calls = 2
    /\ vh_first.request.url # vh_first.before.url
    /\ vh_first.raised = None
    /\ vh_request = vh_first.request
    /\ vh_request.auth_path # None

(***************************************************************************)
(* InstanceMetadataFetcher._get_request (utils.py)                         *)
(***************************************************************************)

\* What one requests.get(url, timeout=timeout) does: it returns a response
\* or raises.
MetadataResponse(status_code) == [type |-> "response", status_code |-> status_code]
RequestsError(class) == [type |-> "exception", class |-> class]
MetadataStatusCodes == {200, 404, 500}
GetOutcomes ==
    {MetadataResponse(c) : c \in MetadataStatusCodes}
        \cup {RequestsError(c) : c \in {"Timeout", "ConnectionError", "TooManyRedirects"}}

_RetriesExceededError == [type |-> "exception", class |-> "_RetriesExceededError"]

\* The loop goes on to its next round.
Continue == [type |-> "continue", value |-> None, error |-> None]

\* The same round returning whatever response it got.
MutRoundReturnsAnyResponse(got) ==
    IF got.type = "exception"
    THEN IF got.class \in {"Timeout", "ConnectionError"} THEN Continue ELSE Raised(got)
    ELSE Returned(got)

\* One round of the for loop: the try statement around requests.get.
get_request_round(got) ==
    IF got.type = "exception"
    THEN IF got.class \in {"Timeout", "ConnectionError"} THEN Continue ELSE Raised(got)
    ELSE IF got.status_code = 200 THEN Returned(got) ELSE Continue

MetadataInit ==
    /\ md_num_attempts \in 0..MaxNumAttempts
    /\ md_seen = <<>>
    /\ md_result = None

\* for i in range(num_attempts): one more round, with one requests.get.
GetRequestRound ==
    /\ md_result = None
    /\ Len(md_seen) < md_num_attempts
    /\ \E got \in GetOutcomes :
          /\ md_seen' = Append(md_seen, got)
          /\ md_result' = IF get_request_round(got) = Continue THEN None
                          ELSE get_request_round(got)
    /\ UNCHANGED <<md_num_attempts, except_metadata>>

\* The loop is over: raise _RetriesExceededError().
GetRequestExhausted ==
    /\ md_result = None
    /\ Len(md_seen) >= md_num_attempts
    /\ md_result' = Raised(_RetriesExceededError)
    /\ UNCHANGED <<md_num_attempts, md_seen, except_metadata>>

InitMetadata == EndpointIdle /\ ConvertIdle /\ StubInit /\ ThreadsIdle /\ CreateIdle /\ CachedIdle /\ CacheIdle /\ EncodeIdle /\ CallsIdle /\ VhostIdle /\ MetadataInit
NextMetadata == GetRequestRound \/ GetRequestExhausted
SpecMetadata == InitMetadata /\ [][NextMetadata]_vars

\* A request that uses up one attempt: a timeout, a connection error or a
\* response whose status is not 200.
UsesUpAttempt(got) ==
    \/ got \in {RequestsError("Timeout"), RequestsError("ConnectionError")}
    \/ got.type = "response" /\ got.status_code # 200

\* C38: _get_request makes at most num_attempts requests; it returns the
\* first response with status 200 and makes no request after it; a timeout,
\* a connection error or a non-200 response each use up one attempt and
\* nothing more; when all num_attempts attempts are used up it raises
\* _RetriesExceededError; it never returns a non-200 response.
C38_AtMostNumAttempts ==
    /\ Len(md_seen) <= md_num_attempts
    /\ \A k \in 1..(Len(md_seen) - 1) : UsesUpAttempt(md_seen[k])
    /\ (md_result # None /\ md_result.type = "returned") =>
          /\ md_seen # <<>>
          /\ md_result.value = md_seen[Len(md_seen)]
          /\ md_result.value.type = "response"
          /\ md_result.value.status_code = 200
    /\ (md_seen # <<>> /\ md_seen[Len(md_seen)] = MetadataResponse(200)) =>
          md_result = Returned(md_seen[Len(md_seen)])
    /\ (md_result # None /\ \A k \in 1..Len(md_seen) : UsesUpAttempt(md_seen[k])) =>
          /\ Len(md_seen) = md_num_attempts
          /\ md_result = Raised(_RetriesExceededError)
    /\ md_result = Raised(_RetriesExceededError) =>
          /\ Len(md_seen) = md_num_attempts
          /\ \A k \in 1..Len(md_seen) : UsesUpAttempt(md_seen[k])

\* With three attempts allowed, a timeout and a 404 used up two and the
\* third request brought the 200 response that the call returned.
C38_Witness ==
    /\ md_num_attempts = 3
    /\ md_seen = <<RequestsError("Timeout"), MetadataResponse(404), MetadataResponse(200)>>
    /\ md_result = Returned(MetadataResponse(200))

\* All three attempts were used up and the call raised.
C38_WitnessExhausted ==
    /\ md_num_attempts = 3
    /\ Len(md_seen) = 3
    /\ md_seen[3] = MetadataResponse(500)
    /\ md_result = Raised(_RetriesExceededError)

====
